---- MODULE Spec2Model ----
(***************************************************************************)
(* Model of the drop-cards schema store (composables/useSchema.ts):        *)
(* the table/relation store with its undo history and id counters, the     *)
(* Drizzle generator (exportToDrizzle), the Drizzle parser                  *)
(* (importFromDrizzle) with its string/comment aware scanner, and the      *)
(* canvas / relation-editor handlers that call the store.                  *)
(*                                                                         *)
(* Source text is a TLA+ string; positions are 0-based as in the source.   *)
(***************************************************************************)
EXTENDS Integers, Sequences, FiniteSets, TLC

VARIABLES
    tables,            \* tables.value: sequence of Table records
    relations,         \* relations.value: sequence of Relation records
    tableCounter,      \* module-level id counters
    columnCounter,
    relationCounter,
    history,           \* history.value: sequence of Schema snapshots
    historyIndex,      \* 0-based index into history
    canUndo,
    canRedo,
    pendingRelation,   \* SchemaCanvas.vue pendingRelation (Nil when closed)
    lastImport,        \* text and return value of the last importFromDrizzle
    opCount,           \* number of handler calls so far
    scanArgs,          \* arguments of a scanToMatching call
    scanRet,           \* its return value
    splitArg,          \* argument of a splitTopLevelComma call
    splitRet,          \* its return value
    parseArg,          \* description and text handed to the parser
    parseRet,          \* what the parser made of it
    isAutoArranging,   \* the flag of autoArrange
    layouts,           \* the computeElkLayout calls that are awaited
    arrangeRet,        \* what the last autoArrange call returned
    lastStep           \* the schema before the last handler call, and what the call did to the history

storeVars == <<tables, relations, tableCounter, columnCounter, relationCounter,
               history, historyIndex, canUndo, canRedo, pendingRelation, lastImport>>
scanVars  == <<scanArgs, scanRet>>
splitVars == <<splitArg, splitRet>>
parseVars == <<parseArg, parseRet>>
arrangeVars == <<isAutoArranging, layouts, arrangeRet>>
vars == <<storeVars, opCount, scanVars, splitVars, parseVars, arrangeVars, lastStep>>

(***************************************************************************)
(* Strings                                                                 *)
(***************************************************************************)

\* JavaScript null / undefined / -1 for an index result
null == -1

\* source[i]; '' past the end
Ch(s, i) == IF i >= 0 /\ i < Len(s) THEN SubSeq(s, i + 1, i + 1) ELSE ""

\* source.slice(from, to)
Slice(s, from, to) ==
    IF (IF to > Len(s) THEN Len(s) ELSE to) <= (IF from < 0 THEN 0 ELSE from) THEN ""
    ELSE SubSeq(s, (IF from < 0 THEN 0 ELSE from) + 1, IF to > Len(s) THEN Len(s) ELSE to)

SliceFrom(s, from) == Slice(s, from, Len(s))

Lowers == "abcdefghijklmnopqrstuvwxyz"
Uppers == "ABCDEFGHIJKLMNOPQRSTUVWXYZ"
Digits == "0123456789"

CharsOf(s) == {SubSeq(s, i, i) : i \in 1..Len(s)}

LowerSet == CharsOf(Lowers)
UpperSet == CharsOf(Uppers)
DigitSet == CharsOf(Digits)

WordChSet == LowerSet \cup UpperSet \cup DigitSet \cup {"_"}
SpaceSet  == {" ", "\n", "\t", "\r"}

\* the regular expression classes \w, [A-Za-z_], [a-zA-Z0-9] and \s
IsWordCh(c)  == c \in WordChSet
IsIdentStart(c) == c \in LowerSet \cup UpperSet \cup {"_"}
IsAlnum(c)   == c \in LowerSet \cup UpperSet \cup DigitSet
IsSpace(c)   == c \in SpaceSet

\* the least index of a set of indices, d when the set is empty
FirstOr(S, d) == IF S = {} THEN d ELSE CHOOSE i \in S : \A j \in S : i <= j

\* index of the first non-space character at or after i (\s* from i)
RECURSIVE SkipSpace(_, _)
SkipSpace(s, i) == IF i < Len(s) /\ IsSpace(Ch(s, i)) THEN SkipSpace(s, i + 1) ELSE i

\* index just after the run of word characters that starts at i (\w* from i)
RECURSIVE SkipWord(_, _)
SkipWord(s, i) == IF i < Len(s) /\ IsWordCh(Ch(s, i)) THEN SkipWord(s, i + 1) ELSE i

\* index just after the last non-space character before end
RECURSIVE TrimEnd(_, _)
TrimEnd(s, end) == IF end > 0 /\ IsSpace(Ch(s, end - 1)) THEN TrimEnd(s, end - 1) ELSE end

\* String.prototype.trim
Trim(s) == Slice(s, SkipSpace(s, 0), TrimEnd(s, Len(s)))

\* s.startsWith(lit, i)
StartsWithAt(s, i, lit) == i >= 0 /\ i + Len(lit) <= Len(s) /\ Slice(s, i, i + Len(lit)) = lit

\* s.indexOf(lit, from); null for -1
IndexOfFrom(s, lit, from) ==
    FirstOr({i \in from..Len(s) - Len(lit) : StartsWithAt(s, i, lit)}, null)

IndexOf(s, lit) == IndexOfFrom(s, lit, 0)
Includes(s, lit) == \E i \in 0..Len(s) - Len(lit) : StartsWithAt(s, i, lit)
EndsWith(s, lit) == Len(s) >= Len(lit) /\ StartsWithAt(s, Len(s) - Len(lit), lit)

LowerCh(c) ==
    IF c \in UpperSet
    THEN SubSeq(Lowers, CHOOSE j \in 1..26 : SubSeq(Uppers, j, j) = c,
                        CHOOSE j \in 1..26 : SubSeq(Uppers, j, j) = c)
    ELSE c

\* s.slice(lo, hi + 1).toLowerCase()
RECURSIVE LowerRange(_, _, _)
LowerRange(s, lo, hi) ==
    IF lo > hi THEN ""
    ELSE IF lo = hi THEN LowerCh(Ch(s, lo))
    ELSE LowerRange(s, lo, (lo + hi) \div 2) \o LowerRange(s, (lo + hi) \div 2 + 1, hi)

\* String.prototype.toLowerCase
ToLowerCase(s) == LowerRange(s, 0, Len(s) - 1)

(***************************************************************************)
(* The scanner of importFromDrizzle: scanToMatching and splitTopLevelComma *)
(***************************************************************************)

\* SANY cannot lex a back-quote inside a string literal: the back-quote
\* character is written ^ in every text of this module
BackQuote == "^"

IsQuote(ch) == ch \in {"'", "\"", BackQuote}

\* the string / comment part of one loop iteration, shared by both scanners:
\* the state after the iteration at index k, with i the index of the next
\* iteration and cont telling that the character was consumed by a string or
\* a comment ("continue")
LexStep(source, st, k) ==
    IF st.inLineComment
    THEN [st EXCEPT !.inLineComment = (Ch(source, k) # "\n"), !.i = k + 1, !.cont = TRUE]
    ELSE IF st.inBlockComment
    THEN IF Ch(source, k) = "*" /\ Ch(source, k + 1) = "/"
         THEN [st EXCEPT !.inBlockComment = FALSE, !.i = k + 2, !.cont = TRUE]
         ELSE [st EXCEPT !.i = k + 1, !.cont = TRUE]
    ELSE IF st.inString # ""
    THEN IF st.escaped
         THEN [st EXCEPT !.escaped = FALSE, !.i = k + 1, !.cont = TRUE]
         ELSE IF Ch(source, k) = "\\"
         THEN [st EXCEPT !.escaped = TRUE, !.i = k + 1, !.cont = TRUE]
         ELSE IF Ch(source, k) = st.inString
         THEN [st EXCEPT !.inString = "", !.i = k + 1, !.cont = TRUE]
         ELSE [st EXCEPT !.i = k + 1, !.cont = TRUE]
    ELSE IF Ch(source, k) = "/" /\ Ch(source, k + 1) = "/"
    THEN [st EXCEPT !.inLineComment = TRUE, !.i = k + 2, !.cont = TRUE]
    ELSE IF Ch(source, k) = "/" /\ Ch(source, k + 1) = "*"
    THEN [st EXCEPT !.inBlockComment = TRUE, !.i = k + 2, !.cont = TRUE]
    ELSE IF IsQuote(Ch(source, k))
    THEN [st EXCEPT !.inString = Ch(source, k), !.i = k + 1, !.cont = TRUE]
    ELSE [st EXCEPT !.i = k + 1, !.cont = FALSE]

LexInit(i) ==
    [i |-> i, inString |-> "", escaped |-> FALSE,
     inLineComment |-> FALSE, inBlockComment |-> FALSE, cont |-> FALSE]

\* depth++ / depth-- of scanToMatching for the character ch
\* a scanner that counts the closing delimiters only
ScanDepthClosesOnly(openChar, closeChar, depth, ch) ==
    IF ch = closeChar THEN depth - 1 ELSE depth

ScanDepth(openChar, closeChar, depth, ch) ==
    IF ch = openChar THEN depth + 1
    ELSE IF ch = closeChar THEN depth - 1
    ELSE depth

\* the part of an iteration of scanToMatching after the string / comment
\* part left the lexer in state lx
ScanCount(st, lx, d, k) ==
    IF lx.cont THEN [st EXCEPT !.lex = lx]
    ELSE IF d = 0 THEN [st EXCEPT !.returned = TRUE, !.ret = k]
    ELSE [st EXCEPT !.lex = lx, !.depth = d]

\* one iteration of the for-loop of scanToMatching at index k
ScanStep(source, openChar, closeChar, st, k) ==
    IF st.returned \/ st.lex.i # k THEN st
    ELSE ScanCount(st, LexStep(source, st.lex, k),
                   ScanDepth(openChar, closeChar, st.depth, Ch(source, k)), k)

\* the iterations lo..hi of the for-loop of scanToMatching
RECURSIVE ScanLoop(_, _, _, _, _, _)
ScanLoop(source, openChar, closeChar, st, lo, hi) ==
    IF st.returned \/ lo > hi THEN st
    ELSE IF lo = hi THEN ScanStep(source, openChar, closeChar, st, lo)
    ELSE ScanLoop(source, openChar, closeChar,
                  ScanLoop(source, openChar, closeChar, st, lo, (lo + hi) \div 2),
                  (lo + hi) \div 2 + 1, hi)

scanToMatching(source, openPos, openChar, closeChar) ==
    IF Ch(source, openPos) # openChar THEN null
    ELSE ScanLoop(source, openChar, closeChar,
                  [lex |-> LexInit(openPos + 1), depth |-> 1, returned |-> FALSE, ret |-> null],
                  openPos + 1, Len(source) - 1).ret

Max0(n) == IF n < 0 THEN 0 ELSE n

\* the depth counter of one delimiter pair of splitTopLevelComma for ch
\* a splitter that keeps no depth
SplitDepthFlat(open, close, depth, ch) == depth

SplitDepth(open, close, depth, ch) ==
    IF ch = open THEN depth + 1
    ELSE IF ch = close THEN Max0(depth - 1)
    ELSE depth

\* the piece source.slice(start, i).trim() pushed when it is not empty
PushPiece(parts, piece) == IF piece # "" THEN Append(parts, piece) ELSE parts

\* the part of an iteration of splitTopLevelComma after the string / comment
\* part left the lexer in state lx
SplitCount(source, st, lx, ch, k) ==
    IF lx.cont THEN [st EXCEPT !.lex = lx]
    ELSE IF /\ ch = ","
            /\ st.depthParen = 0 /\ st.depthBrace = 0 /\ st.depthBracket = 0
    THEN [st EXCEPT !.lex = lx,
                    !.parts = PushPiece(@, Trim(Slice(source, st.start, k))),
                    !.start = k + 1]
    ELSE [st EXCEPT !.lex = lx,
                    !.depthParen = SplitDepth("(", ")", @, ch),
                    !.depthBrace = SplitDepth("{", "}", @, ch),
                    !.depthBracket = SplitDepth("[", "]", @, ch)]

\* one iteration of the for-loop of splitTopLevelComma at index k
SplitStep(source, st, k) ==
    IF st.lex.i # k THEN st
    ELSE SplitCount(source, st, LexStep(source, st.lex, k), Ch(source, k), k)

\* the iterations lo..hi of the for-loop of splitTopLevelComma
RECURSIVE SplitLoop(_, _, _, _)
SplitLoop(source, st, lo, hi) ==
    IF st.lex.i > hi \/ lo > hi THEN st
    ELSE IF lo = hi THEN SplitStep(source, st, lo)
    ELSE SplitLoop(source, SplitLoop(source, st, lo, (lo + hi) \div 2),
                   (lo + hi) \div 2 + 1, hi)

\* the pieces pushed in the loop, then the last piece
SplitEnd(source, fin) == PushPiece(fin.parts, Trim(SliceFrom(source, fin.start)))

splitTopLevelComma(source) ==
    SplitEnd(source,
             SplitLoop(source,
                       [lex |-> LexInit(0), parts |-> <<>>, start |-> 0,
                        depthParen |-> 0, depthBrace |-> 0, depthBracket |-> 0],
                       0, Len(source) - 1))

(***************************************************************************)
(* Regular expressions of importFromDrizzle.  A regular expression is the *)
(* sequence of its pieces; each piece of these expressions can be matched  *)
(* without backtracking over an earlier piece, because the piece after a   *)
(* greedy \s*, \s+ or \w+ never starts with a character the greedy piece   *)
(* accepts.  The two exceptions are pieces of their own: (\w+)Relations    *)
(* and the lazy ([\s\S]*?) before \]\s*\).                                 *)
(***************************************************************************)

Lit(s)   == [k |-> "lit", s |-> s]            \* the literal text s
Ws0      == [k |-> "ws0", s |-> ""]           \* \s*
Ws1      == [k |-> "ws1", s |-> ""]           \* \s+
Word     == [k |-> "word", s |-> ""]          \* (\w+)
Ident    == [k |-> "ident", s |-> ""]         \* ([A-Za-z_]\w*)
Quoted   == [k |-> "quoted", s |-> ""]        \* ['"]([^'"]+)['"]
OptSemi  == [k |-> "optsemi", s |-> ""]       \* ;?
WordRel  == [k |-> "wordrel", s |-> "Relations"]  \* (\w+)Relations
Lazy     == [k |-> "lazy", s |-> ""]          \* ([\s\S]*?) before \]\s*\)
WsRest   == [k |-> "wsrest", s |-> ""]        \* \s*([\s\S]+)$

IsQuoteCh(c) == c \in {"'", "\""}

\* index of the first ' or " at or after i, null if none
RECURSIVE NextQuote(_, _)
NextQuote(s, i) ==
    IF i >= Len(s) THEN null
    ELSE IF IsQuoteCh(Ch(s, i)) THEN i
    ELSE NextQuote(s, i + 1)

\* end of ['"]([^'"]+)['"] at i: the capture is s.slice(i + 1, end - 1)
QuotedEnd(s, i) ==
    IF IsQuoteCh(Ch(s, i)) /\ NextQuote(s, i + 1) # null /\ NextQuote(s, i + 1) > i + 1
    THEN NextQuote(s, i + 1) + 1
    ELSE null

\* end of (\w+)Relations at i when a piece that starts with no word character
\* follows: the whole run of word characters, which has to end in Relations
\* after at least one other character
WordRelEnd(s, i, suffix) ==
    IF /\ SkipWord(s, i) - i > Len(suffix)
       /\ Slice(s, SkipWord(s, i) - Len(suffix), SkipWord(s, i)) = suffix
    THEN SkipWord(s, i)
    ELSE null

\* end of the lazy ([\s\S]*?) at i: the first ] that only white space
\* separates from a )
LazyEnd(s, i) ==
    FirstOr({j \in i..Len(s) - 1 : Ch(s, j) = "]" /\ Ch(s, SkipSpace(s, j + 1)) = ")"}, null)

\* where the capture of \s*([\s\S]+)$ starts at i: after the white space,
\* or at the last white-space character when nothing else is left
RestStart(s, i) ==
    IF SkipSpace(s, i) < Len(s) THEN SkipSpace(s, i)
    ELSE IF i < Len(s) THEN Len(s) - 1
    ELSE null

\* index where piece t ends when it starts at i; null if it does not match
TokenEnd(s, i, t) ==
    CASE t.k = "lit"     -> IF StartsWithAt(s, i, t.s) THEN i + Len(t.s) ELSE null
      [] t.k = "ws0"     -> SkipSpace(s, i)
      [] t.k = "ws1"     -> IF SkipSpace(s, i) > i THEN SkipSpace(s, i) ELSE null
      [] t.k = "word"    -> IF SkipWord(s, i) > i THEN SkipWord(s, i) ELSE null
      [] t.k = "ident"   -> IF IsIdentStart(Ch(s, i)) THEN SkipWord(s, i) ELSE null
      [] t.k = "quoted"  -> QuotedEnd(s, i)
      [] t.k = "optsemi" -> IF Ch(s, i) = ";" THEN i + 1 ELSE i
      [] t.k = "wordrel" -> WordRelEnd(s, i, t.s)
      [] t.k = "lazy"    -> LazyEnd(s, i)
      [] t.k = "wsrest"  -> IF RestStart(s, i) = null THEN null ELSE Len(s)

\* the capture groups after piece t matched from i to end
TokenGroups(g, s, i, t, end) ==
    IF end = null THEN g
    ELSE CASE t.k \in {"word", "ident", "lazy"} -> Append(g, Slice(s, i, end))
           [] t.k = "quoted"  -> Append(g, Slice(s, i + 1, end - 1))
           [] t.k = "wordrel" -> Append(g, Slice(s, i, end - Len(t.s)))
           [] t.k = "wsrest"  -> Append(g, Slice(s, RestStart(s, i), end))
           [] OTHER           -> g

\* a failed match; a match m has m.index, m.end = m.index + m[0].length and
\* the groups m.g[1] = m[1], m.g[2] = m[2], ...
NoMatch == [index |-> null, end |-> null, g |-> <<>>]

\* the pieces n.. of pat matched from pos, for a match that started at index
RECURSIVE MatchFrom(_, _, _, _, _, _)
MatchFrom(s, pat, n, index, pos, g) ==
    IF pos = null THEN NoMatch
    ELSE IF n > Len(pat) THEN [index |-> index, end |-> pos, g |-> g]
    ELSE MatchFrom(s, pat, n + 1, index, TokenEnd(s, pos, pat[n]),
                   TokenGroups(g, s, pos, pat[n], TokenEnd(s, pos, pat[n])))

\* the match of pat that starts exactly at index i (a ^ pattern with i = 0)
MatchAt(s, i, pat) == IF i = null THEN NoMatch ELSE MatchFrom(s, pat, 1, i, i, <<>>)

\* regex.exec(s) with regex.lastIndex = lastIndex: the leftmost match
Exec(pat, s, lastIndex) ==
    MatchAt(s, FirstOr({i \in lastIndex..Len(s) : MatchAt(s, i, pat).end # null}, null), pat)

\* str.match(regex) for a regex without the g flag
Match(s, pat) == Exec(pat, s, 0)

enumRegex ==
    <<Lit("export"), Ws1, Lit("const"), Ws1, Word, Ws0, Lit("="), Ws0, Lit("pgEnum("), Ws0,
      Quoted, Ws0, Lit(","), Ws0, Lit("["), Lazy, Lit("]"), Ws0, Lit(")"), Ws0, OptSemi>>

tableStartRegex ==
    <<Lit("export"), Ws1, Lit("const"), Ws1, Word, Ws0, Lit("="), Ws0, Lit("pgTable"), Ws0,
      Lit("(")>>

\* /^\s*['"]([^'"]+)['"]\s*,/s
tableNameRegex == <<Ws0, Quoted, Ws0, Lit(",")>>

\* /^\s*(\w+)\s*:\s*([\s\S]+)$/
entryRegex == <<Ws0, Word, Ws0, Lit(":"), WsRest>>

\* /^\s*([A-Za-z_]\w*)\s*\(/
baseTypeRegex == <<Ws0, Ident, Ws0, Lit("(")>>

\* /\.references\(\s*\(\s*\)\s*=>\s*(\w+)\.(\w+)\s*\)/
refRegex ==
    <<Lit(".references("), Ws0, Lit("("), Ws0, Lit(")"), Ws0, Lit("=>"), Ws0,
      Word, Lit("."), Word, Ws0, Lit(")")>>

relationsStartRegex ==
    <<Lit("export"), Ws1, Lit("const"), Ws1, WordRel, Ws0, Lit("="), Ws0, Lit("relations"),
      Ws0, Lit("(")>>

\* /^\s*(\w+)\s*,/s
baseTableVarRegex == <<Ws0, Word, Ws0, Lit(",")>>

oneRegex ==
    <<Lit("one("), Ws0, Word, Ws0, Lit(","), Ws0, Lit("{"), Ws0, Lit("fields:"), Ws0,
      Lit("["), Ws0, Word, Lit("."), Word, Ws0, Lit("]"), Ws0, Lit(","), Ws0,
      Lit("references:"), Ws0, Lit("["), Ws0, Word, Lit("."), Word, Ws0, Lit("]"), Ws0,
      Lit("}"), Ws0, Lit(")")>>

manyRegex == <<Lit("many("), Ws0, Word, Ws0, Lit(")")>>

(***************************************************************************)
(* importFromDrizzle: the parse                                            *)
(***************************************************************************)

\* a JavaScript object used as a map: obj[key] = value
Put(obj, key, value) == [x \in DOMAIN obj \cup {key} |-> IF x = key THEN value ELSE obj[x]]
EmptyObject == <<>>
Has(obj, key) == key \in DOMAIN obj

\* names every object literal inherits from Object.prototype: obj[name] is
\* truthy for them although the literal never set them
ObjectPrototypeKeys ==
    {"constructor", "toString", "valueOf", "hasOwnProperty", "isPrototypeOf",
     "propertyIsEnumerable", "toLocaleString"}

TableId(n)    == "table-" \o ToString(n)
ColumnId(n)   == "col-" \o ToString(n)
RelationId(n) == "rel-" \o ToString(n)

\* newTables.find(t => t.id === tableId): its index, 0 if none
FindTableIndex(tbls, tableId) ==
    FirstOr({i \in 1..Len(tbls) : tbls[i].id = tableId}, 0)

\* columns.find(c => c.name === name): its index, 0 if none
FindColumnByName(columns, name) ==
    FirstOr({i \in 1..Len(columns) : columns[i].name = name}, 0)

mapDrizzleTypeToInternal(drizzleType) ==
    CASE drizzleType = "integer"   -> "integer"
      [] drizzleType = "serial"    -> "integer"
      [] drizzleType = "varchar"   -> "varchar"
      [] drizzleType = "text"      -> "text"
      [] drizzleType = "decimal"   -> "decimal"
      [] drizzleType = "boolean"   -> "boolean"
      [] drizzleType = "timestamp" -> "timestamp"
      [] drizzleType = "date"      -> "date"
      [] drizzleType = "jsonb"     -> "json"
      [] OTHER                     -> "text"

\* enumVarMap[baseType] ? `enum:${enumVarMap[baseType].enumName}` : isSerial ? 'integer' : ...
ColType(enumVarMap, baseType, isSerial) ==
    IF Has(enumVarMap, baseType) THEN "enum:" \o enumVarMap[baseType].enumName
    ELSE IF baseType \in ObjectPrototypeKeys THEN "enum:undefined"
    ELSE IF isSerial THEN "integer"
    ELSE mapDrizzleTypeToInternal(baseType)

SameLink(r, rel) ==
    \/ /\ r.fromTableId = rel.fromTableId /\ r.fromColumnId = rel.fromColumnId
       /\ r.toTableId = rel.toTableId /\ r.toColumnId = rel.toColumnId
    \/ /\ r.fromTableId = rel.toTableId /\ r.fromColumnId = rel.toColumnId
       /\ r.toTableId = rel.fromTableId /\ r.toColumnId = rel.fromColumnId

\* the same, were the id taken before the candidate is compared
addRelationCounting(st, rel) ==
    IF \E i \in 1..Len(st.newRelations) : SameLink(st.newRelations[i], rel)
    THEN [st EXCEPT !.relationCounter = @ + 1]
    ELSE [st EXCEPT !.relationCounter = @ + 1,
                    !.newRelations = Append(@, [id |-> RelationId(st.relationCounter + 1),
                                                 fromTableId |-> rel.fromTableId,
                                                 fromColumnId |-> rel.fromColumnId,
                                                 toTableId |-> rel.toTableId,
                                                 toColumnId |-> rel.toColumnId,
                                                 type |-> rel.type])]

\* st carries newRelations and relationCounter
addRelationIfMissing(st, rel) ==
    IF \E i \in 1..Len(st.newRelations) : SameLink(st.newRelations[i], rel) THEN st
    ELSE [st EXCEPT !.relationCounter = @ + 1,
                    !.newRelations = Append(@, [id |-> RelationId(st.relationCounter + 1),
                                                 fromTableId |-> rel.fromTableId,
                                                 fromColumnId |-> rel.fromColumnId,
                                                 toTableId |-> rel.toTableId,
                                                 toColumnId |-> rel.toColumnId,
                                                 type |-> rel.type])]

\* an inference that ignores the unique mark
RelationTypeOneToMany(fkCol) == "one-to-many"

\* an inference that takes a foreign key that is not unique for one side of
\* a many-to-many relation
RelationTypeManyToMany(fkCol) == IF fkCol.unique THEN "one-to-one" ELSE "many-to-many"

RelationTypeFor(fkCol) == IF fkCol.unique THEN "one-to-one" ELSE "one-to-many"

\* the while-loop over enumRegex matches, m the latest match; the values of
\* an enum are parsed into enumVarMap and never read again
RECURSIVE ParseEnums(_, _, _)
ParseEnums(code, m, enumVarMap) ==
    IF m.end = null THEN enumVarMap
    ELSE ParseEnums(code, Exec(enumRegex, code, m.end),
                    IF m.g[1] # "" /\ m.g[2] # ""
                    THEN Put(enumVarMap, m.g[1], [enumName |-> m.g[2]])
                    ELSE enumVarMap)

\* the column object of an entry
NewColumn(id, colProp, colType, isSerial, isPrimaryKey, isNotNull, isUnique) ==
    [id |-> id, name |-> colProp, type |-> colType, nullable |-> ~isNotNull,
     primaryKey |-> isPrimaryKey, unique |-> isUnique, autoIncrement |-> isSerial]

\* pendingRefRelations after the entry colProp: expr, refMatch the match of
\* the inline .references(() => table.column)
PushPending(pending, refMatch, tableVar, colProp) ==
    IF refMatch.end # null /\ refMatch.g[1] # "" /\ refMatch.g[2] # ""
    THEN Append(pending, [fromTableVar |-> refMatch.g[1],
                          fromColumnName |-> refMatch.g[2],
                          toTableVar |-> tableVar,
                          toColumnName |-> colProp])
    ELSE pending

\* an entry whose base type is known: the column is pushed
ColumnTyped(st, tableVar, enumVarMap, colProp, expr, baseType, isSerial) ==
    [st EXCEPT !.columnCounter = @ + 1,
               !.columns = Append(@, NewColumn(ColumnId(st.columnCounter + 1), colProp,
                                        ColType(enumVarMap, baseType, isSerial), isSerial,
                                        Includes(expr, ".primaryKey()") \/ isSerial,
                                        Includes(expr, ".notNull()") \/ isSerial,
                                        Includes(expr, ".unique()"))),
               !.pendingRefRelations = PushPending(@, Match(expr, refRegex), tableVar, colProp)]

\* an entry split into property and expression
ColumnExpr(st, tableVar, enumVarMap, colProp, expr, baseTypeMatch) ==
    IF colProp = "" \/ expr = "" THEN st
    ELSE IF baseTypeMatch.end = null THEN st
    ELSE IF baseTypeMatch.g[1] = "" THEN st
    ELSE ColumnTyped(st, tableVar, enumVarMap, colProp, expr,
                     baseTypeMatch.g[1], baseTypeMatch.g[1] = "serial")

\* one iteration of "for (const entry of entries)", m the match of the entry;
\* st carries columns, columnCounter and pendingRefRelations
ColumnEntry(st, tableVar, enumVarMap, m) ==
    IF m.end = null THEN st
    ELSE ColumnExpr(st, tableVar, enumVarMap, m.g[1], Trim(m.g[2]),
                    MatchAt(Trim(m.g[2]), 0, baseTypeRegex))

\* the iterations k.. of "for (const entry of entries)"
RECURSIVE ColumnEntries(_, _, _, _, _)
ColumnEntries(st, tableVar, enumVarMap, entries, k) ==
    IF st.columnCounter < 0 \/ k > Len(entries) THEN st
    ELSE ColumnEntries(ColumnEntry(st, tableVar, enumVarMap, MatchAt(entries[k], 0, entryRegex)),
                       tableVar, enumVarMap, entries, k + 1)

\* the initial position the parser gives the n-th table (n = newTables.length)
ImportPosition(n) == [x |-> 100 + (n % 5) * 400, y |-> 100 + (n \div 5) * 300]

TableWidth == 350

\* the end of the body of the table loop: cols is what the column loop left
TablePush(acc, tableVar, tableName, cols) ==
    [acc EXCEPT !.tableCounter = @ + 1,
                !.tableVarMap = Put(@, tableVar, [tableId |-> TableId(acc.tableCounter + 1),
                                                  name |-> tableName]),
                !.columnCounter = cols.columnCounter,
                !.pendingRefRelations = cols.pendingRefRelations,
                !.newTables = Append(@, [id |-> TableId(acc.tableCounter + 1),
                                         name |-> tableName,
                                         position |-> ImportPosition(Len(acc.newTables)),
                                         width |-> TableWidth,
                                         columns |-> cols.columns])]

\* the table loop from the second scanToMatching on
TableBody(code, acc, tableVar, tableName, bracePosInCode, closeBracePos) ==
    IF closeBracePos = null THEN acc
    ELSE TablePush(acc, tableVar, tableName,
                   ColumnEntries([columns |-> <<>>, columnCounter |-> acc.columnCounter,
                                  pendingRefRelations |-> acc.pendingRefRelations],
                                 tableVar, acc.enumVarMap,
                                 splitTopLevelComma(Slice(code, bracePosInCode + 1, closeBracePos)),
                                 1))

\* the table loop from argsText on, were the table id taken before the checks
TableArgsCounting(code, acc, tableVar, openParenPos, argsText, tableNameMatch, bracePosInArgs) ==
    IF tableNameMatch.end = null THEN [acc EXCEPT !.tableCounter = @ + 1]
    ELSE IF tableNameMatch.g[1] = "" THEN [acc EXCEPT !.tableCounter = @ + 1]
    ELSE IF bracePosInArgs = null THEN [acc EXCEPT !.tableCounter = @ + 1]
    ELSE TableBody(code, acc, tableVar, tableNameMatch.g[1], openParenPos + 1 + bracePosInArgs,
                   scanToMatching(code, openParenPos + 1 + bracePosInArgs, "{", "}"))

\* the table loop from argsText on
TableArgs(code, acc, tableVar, openParenPos, argsText, tableNameMatch, bracePosInArgs) ==
    IF tableNameMatch.end = null THEN acc
    ELSE IF tableNameMatch.g[1] = "" THEN acc
    ELSE IF bracePosInArgs = null THEN acc
    ELSE TableBody(code, acc, tableVar, tableNameMatch.g[1], openParenPos + 1 + bracePosInArgs,
                   scanToMatching(code, openParenPos + 1 + bracePosInArgs, "{", "}"))

\* the table loop from the first scanToMatching on
TableParen(code, acc, tableVar, openParenPos, closeParenPos) ==
    IF closeParenPos = null THEN acc
    ELSE TableArgs(code, acc, tableVar, openParenPos,
                   Slice(code, openParenPos + 1, closeParenPos),
                   MatchAt(Slice(code, openParenPos + 1, closeParenPos), 0, tableNameRegex),
                   IndexOf(Slice(code, openParenPos + 1, closeParenPos), "{"))

\* the body of the while-loop over tableStartRegex matches, for match m
TableDeclaration(code, acc, m) ==
    IF m.g[1] = "" THEN acc
    ELSE TableParen(code, acc, m.g[1], m.end - 1, scanToMatching(code, m.end - 1, "(", ")"))

\* the while-loop over tableStartRegex matches, m the latest match
RECURSIVE ParseTables(_, _, _)
ParseTables(code, acc, m) ==
    IF acc.tableCounter < 0 \/ m.end = null THEN acc
    ELSE ParseTables(code, TableDeclaration(code, acc, m), Exec(tableStartRegex, code, m.end))

\* tableVarMap[v] followed by newTables.find(t => t.id === info.tableId); 0 if either fails
ResolveTable(acc, tableVar) ==
    IF Has(acc.tableVarMap, tableVar)
    THEN FindTableIndex(acc.newTables, acc.tableVarMap[tableVar].tableId)
    ELSE 0

\* the relation pushed for a referenced column and a foreign-key column
LinkFound(st, fromTable, fromCol, toTable, toCol) ==
    addRelationIfMissing(st,
        [fromTableId |-> fromTable.id, fromColumnId |-> fromCol.id,
         toTableId |-> toTable.id, toColumnId |-> toCol.id,
         type |-> RelationTypeFor(toCol)])

\* both tables found: the two columns.find
LinkTables(st, fromTable, toTable, ci, cj) ==
    IF ci = 0 \/ cj = 0 THEN st
    ELSE LinkFound(st, fromTable, fromTable.columns[ci], toTable, toTable.columns[cj])

\* the same, were a column that is not found replaced by the first column
LinkResolvedFirstColumn(acc, st, ti, refColProp, tj, fkColProp) ==
    IF ti = 0 \/ tj = 0 THEN st
    ELSE LinkTables(st, acc.newTables[ti], acc.newTables[tj],
                    IF FindColumnByName(acc.newTables[ti].columns, refColProp) = 0 THEN 1
                    ELSE FindColumnByName(acc.newTables[ti].columns, refColProp),
                    IF FindColumnByName(acc.newTables[tj].columns, fkColProp) = 0 THEN 1
                    ELSE FindColumnByName(acc.newTables[tj].columns, fkColProp))

\* the relation between a referenced column and a foreign-key column given
\* by the indices ti, tj of their tables and their properties
LinkResolved(acc, st, ti, refColProp, tj, fkColProp) ==
    IF ti = 0 \/ tj = 0 THEN st
    ELSE LinkTables(st, acc.newTables[ti], acc.newTables[tj],
                    FindColumnByName(acc.newTables[ti].columns, refColProp),
                    FindColumnByName(acc.newTables[tj].columns, fkColProp))

\* the same by (table variable, column property) pairs; st unchanged if unresolved
LinkColumns(acc, st, refTableVar, refColProp, fkTableVar, fkColProp) ==
    LinkResolved(acc, st, ResolveTable(acc, refTableVar), refColProp,
                 ResolveTable(acc, fkTableVar), fkColProp)

\* the iterations k.. of "for (const pending of pendingRefRelations)"
RECURSIVE ResolvePending(_, _, _)
ResolvePending(acc, st, k) ==
    IF st.relationCounter < 0 \/ k > Len(acc.pendingRefRelations) THEN st
    ELSE ResolvePending(acc,
             LinkColumns(acc, st,
                         acc.pendingRefRelations[k].fromTableVar,
                         acc.pendingRefRelations[k].fromColumnName,
                         acc.pendingRefRelations[k].toTableVar,
                         acc.pendingRefRelations[k].toColumnName),
             k + 1)

\* the same, were the referenced table taken to be the target of the call
OneCallByTarget(acc, st, m) ==
    IF m.g[1] = "" \/ m.g[2] = "" \/ m.g[3] = "" \/ m.g[4] = "" \/ m.g[5] = "" THEN st
    ELSE LinkColumns(acc, st, m.g[1], m.g[5], m.g[2], m.g[3])

\* the body of the while-loop over oneRegex matches, for match m
OneCall(acc, st, m) ==
    IF m.g[1] = "" \/ m.g[2] = "" \/ m.g[3] = "" \/ m.g[4] = "" \/ m.g[5] = "" THEN st
    ELSE LinkColumns(acc, st, m.g[4], m.g[5], m.g[2], m.g[3])

\* the while-loop over oneRegex matches in argsText, m the latest match
RECURSIVE OneCalls(_, _, _, _)
OneCalls(acc, argsText, st, m) ==
    IF st.relationCounter < 0 \/ m.end = null THEN st
    ELSE OneCalls(acc, argsText, OneCall(acc, st, m), Exec(oneRegex, argsText, m.end))

Singular(baseName) ==
    IF EndsWith(baseName, "s") THEN Slice(baseName, 0, Len(baseName) - 1) ELSE baseName

\* the same without the two preferred forms: the first column ending in id
FkCandidateFirstId(columns, singular) ==
    FirstOr({i \in 1..Len(columns) : EndsWith(ToLowerCase(columns[i].name), "id")}, 0)

\* the three find() calls that pick the foreign-key column of a many(); 0 if none
FkCandidate(columns, singular) ==
    FirstOr({i \in 1..Len(columns) : ToLowerCase(columns[i].name) = singular \o "id"},
      FirstOr({i \in 1..Len(columns) : /\ Includes(ToLowerCase(columns[i].name), singular)
                                       /\ EndsWith(ToLowerCase(columns[i].name), "id")},
        FirstOr({i \in 1..Len(columns) : EndsWith(ToLowerCase(columns[i].name), "id")}, 0)))

\* baseTable.columns.find(c => c.primaryKey) || baseTable.columns[0]; 0 if no column
FromPK(columns) ==
    FirstOr({i \in 1..Len(columns) : columns[i].primaryKey}, IF Len(columns) > 0 THEN 1 ELSE 0)

\* a many() whose target table is known
ManyTarget(st, baseTable, targetTable, pk, fk) ==
    IF pk = 0 THEN st
    ELSE IF fk = 0 THEN st
    ELSE LinkFound(st, baseTable, baseTable.columns[pk], targetTable, targetTable.columns[fk])

\* a many() whose target variable resolved to index ti
ManyResolved(acc, st, baseTable, ti) ==
    IF ti = 0 THEN st
    ELSE ManyTarget(st, baseTable, acc.newTables[ti], FromPK(baseTable.columns),
                    FkCandidate(acc.newTables[ti].columns,
                                Singular(ToLowerCase(baseTable.name))))

\* the body of the while-loop over manyRegex matches, for match m
ManyCall(acc, st, baseTable, m) ==
    IF m.g[1] = "" THEN st
    ELSE ManyResolved(acc, st, baseTable, ResolveTable(acc, m.g[1]))

\* the while-loop over manyRegex matches in argsText, m the latest match
RECURSIVE ManyCalls(_, _, _, _, _)
ManyCalls(acc, baseTable, argsText, st, m) ==
    IF st.relationCounter < 0 \/ m.end = null THEN st
    ELSE ManyCalls(acc, baseTable, argsText, ManyCall(acc, st, baseTable, m),
                   Exec(manyRegex, argsText, m.end))

\* a relations block of a known base table: the one() loop, then the many() loop
RelationsOf(acc, st, argsText, bi) ==
    IF bi = 0 THEN st
    ELSE ManyCalls(acc, acc.newTables[bi], argsText,
                   OneCalls(acc, argsText, st, Exec(oneRegex, argsText, 0)),
                   Exec(manyRegex, argsText, 0))

\* a relations block from argsText on
RelationsArgs(acc, st, argsText, baseTableVarMatch) ==
    IF baseTableVarMatch.end = null THEN st
    ELSE IF baseTableVarMatch.g[1] = "" THEN st
    ELSE RelationsOf(acc, st, argsText, ResolveTable(acc, baseTableVarMatch.g[1]))

\* a relations block from scanToMatching on
RelationsParen(code, acc, st, openParenPos, closeParenPos) ==
    IF closeParenPos = null THEN st
    ELSE RelationsArgs(acc, st, Slice(code, openParenPos + 1, closeParenPos),
                       MatchAt(Slice(code, openParenPos + 1, closeParenPos), 0,
                               baseTableVarRegex))

\* the body of the while-loop over relationsStartRegex matches, for match m
RelationsBlock(code, acc, st, m) ==
    RelationsParen(code, acc, st, m.end - 1, scanToMatching(code, m.end - 1, "(", ")"))

\* the while-loop over relationsStartRegex matches, m the latest match
RECURSIVE RelationsBlocks(_, _, _, _)
RelationsBlocks(code, acc, st, m) ==
    IF st.relationCounter < 0 \/ m.end = null THEN st
    ELSE RelationsBlocks(code, acc, RelationsBlock(code, acc, st, m),
                         Exec(relationsStartRegex, code, m.end))

NoTablesError == "No tables found in schema. Make sure tables are defined with pgTable()"

\* the return value and what the call leaves when newTables is empty
ParseFailed(acc) ==
    [success |-> FALSE, error |-> NoTablesError, tables |-> <<>>, relations |-> <<>>,
     tableCounter |-> acc.tableCounter, columnCounter |-> acc.columnCounter,
     relationCounter |-> 0]

\* the return value and what the call leaves after the relations were resolved
ParseDone(acc, rels) ==
    [success |-> TRUE, error |-> "", tables |-> acc.newTables, relations |-> rels.newRelations,
     tableCounter |-> acc.tableCounter, columnCounter |-> acc.columnCounter,
     relationCounter |-> rels.relationCounter]

\* importFromDrizzle after the table loop
ParseRelations(code, acc) ==
    IF Len(acc.newTables) = 0 THEN ParseFailed(acc)
    ELSE ParseDone(acc,
             RelationsBlocks(code, acc,
                 ResolvePending(acc, [newRelations |-> <<>>, relationCounter |-> 0], 1),
                 Exec(relationsStartRegex, code, 0)))

\* a parse that numbers on from the counters the preview schema left
ParseWithEnumsNoReset(code, enumVarMap) ==
    ParseRelations(code,
        ParseTables(code,
                    [newTables |-> <<>>, tableVarMap |-> EmptyObject, enumVarMap |-> enumVarMap,
                     pendingRefRelations |-> <<>>, tableCounter |-> 3, columnCounter |-> 14],
                    Exec(tableStartRegex, code, 0)))

\* importFromDrizzle after the enum loop
ParseWithEnums(code, enumVarMap) ==
    ParseRelations(code,
        ParseTables(code,
                    [newTables |-> <<>>, tableVarMap |-> EmptyObject, enumVarMap |-> enumVarMap,
                     pendingRefRelations |-> <<>>, tableCounter |-> 0, columnCounter |-> 0],
                    Exec(tableStartRegex, code, 0)))

\* everything importFromDrizzle computes before it touches the store: the
\* return value, the new tables and relations, and the counters it leaves
ParseDrizzle(code) ==
    ParseWithEnums(code, ParseEnums(code, Exec(enumRegex, code, 0), EmptyObject))

(***************************************************************************)
(* exportToDrizzle                                                         *)
(***************************************************************************)

mapColumnTypeToDrizzle(type) ==
    CASE type = "integer"   -> [type |-> "integer",   needsLength |-> FALSE]
      [] type = "varchar"   -> [type |-> "varchar",   needsLength |-> TRUE]
      [] type = "text"      -> [type |-> "text",      needsLength |-> FALSE]
      [] type = "boolean"   -> [type |-> "boolean",   needsLength |-> FALSE]
      [] type = "timestamp" -> [type |-> "timestamp", needsLength |-> FALSE]
      [] type = "date"      -> [type |-> "date",      needsLength |-> FALSE]
      [] type = "json"      -> [type |-> "jsonb",     needsLength |-> FALSE]
      [] OTHER              -> [type |-> "text",      needsLength |-> FALSE]

\* s.slice(lo, hi + 1).replace(/[^a-zA-Z0-9]/g, '_')
RECURSIVE ReplaceRange(_, _, _)
ReplaceRange(s, lo, hi) ==
    IF lo > hi THEN ""
    ELSE IF lo = hi THEN (IF IsAlnum(Ch(s, lo)) THEN Ch(s, lo) ELSE "_")
    ELSE ReplaceRange(s, lo, (lo + hi) \div 2) \o ReplaceRange(s, (lo + hi) \div 2 + 1, hi)

\* tableName.replace(/[^a-zA-Z0-9]/g, '_')
TableVarName(tableName) == ReplaceRange(tableName, 0, Len(tableName) - 1)

\* v.charAt(0).toLowerCase() + v.slice(1)
LowerFirst(v) == LowerCh(Ch(v, 0)) \o SliceFrom(v, 1)

\* the type call of a column definition
ColumnTypeCall(column) ==
    IF column.autoIncrement /\ mapColumnTypeToDrizzle(column.type).type = "integer"
    THEN "serial"
    ELSE IF /\ mapColumnTypeToDrizzle(column.type).needsLength
            /\ mapColumnTypeToDrizzle(column.type).type = "varchar"
    THEN "varchar('" \o column.name \o "', { length: 255 })"
    ELSE mapColumnTypeToDrizzle(column.type).type \o "('" \o column.name \o "')"

\* the modifiers in the order not-null, unique, primary-key
ColumnModifiersNotNullFirst(column) ==
       (IF ~column.nullable THEN ".notNull()" ELSE "")
    \o (IF column.unique THEN ".unique()" ELSE "")
    \o (IF column.primaryKey /\ ~column.autoIncrement THEN ".primaryKey()" ELSE "")

\* modifiers.join('')
ColumnModifiers(column) ==
       (IF column.primaryKey /\ ~column.autoIncrement THEN ".primaryKey()" ELSE "")
    \o (IF ~column.nullable THEN ".notNull()" ELSE "")
    \o (IF column.unique THEN ".unique()" ELSE "")

ColumnDef(column) ==
    "  " \o column.name \o ": " \o ColumnTypeCall(column) \o ColumnModifiers(column)

\* the lines table.columns.forEach adds to tableDef for the columns k..
RECURSIVE ColumnDefs(_, _)
ColumnDefs(columns, k) ==
    IF k > Len(columns) THEN ""
    ELSE ColumnDef(columns[k]) \o ",\n" \o ColumnDefs(columns, k + 1)

TableDef(table) ==
    "export const " \o TableVarName(table.name) \o " = pgTable('" \o table.name \o "', {\n"
        \o ColumnDefs(table.columns, 1) \o "})\n"

\* tableDefinitions.join('\n') for the tables k..
RECURSIVE TableDefinitions(_, _)
TableDefinitions(tbls, k) ==
    IF k > Len(tbls) THEN ""
    ELSE (IF k > 1 THEN "\n" ELSE "") \o TableDef(tbls[k]) \o TableDefinitions(tbls, k + 1)

\* index of the last table with this id, 0 if none
LastTableIndex(tbls, tableId) ==
    IF \E i \in 1..Len(tbls) : tbls[i].id = tableId
    THEN CHOOSE i \in 1..Len(tbls) :
             /\ tbls[i].id = tableId
             /\ \A j \in 1..Len(tbls) : tbls[j].id = tableId => j <= i
    ELSE 0

\* tableVarMap[tableId] of exportToDrizzle: the variable name of the table
\* with this id, a later table with the same id overwriting an earlier one
ExportVar(tbls, tableId) ==
    IF LastTableIndex(tbls, tableId) = 0 THEN ""
    ELSE TableVarName(tbls[LastTableIndex(tbls, tableId)].name)

\* columns.find(c => c.id === columnId): its index, 0 if none
FindColumnById(columns, columnId) ==
    FirstOr({i \in 1..Len(columns) : columns[i].id = columnId}, 0)

OneField(relationName, targetVar, fieldsVar, fieldsCol, refVar, refCol) ==
       "  " \o relationName \o ": one(" \o targetVar \o ", {\n"
    \o "    fields: [" \o fieldsVar \o "." \o fieldsCol \o "],\n"
    \o "    references: [" \o refVar \o "." \o refCol \o "],\n"
    \o "  }),\n"

\* outgoingRelations.forEach body once both columns were looked up
OutgoingColumns(table, toTable, tableVarName, toTableVar, relation, fi, ci) ==
    IF fi = 0 \/ ci = 0 THEN ""
    ELSE IF relation.type = "one-to-one"
    THEN OneField(LowerFirst(toTableVar)
                      \o (IF relation.type = "many-to-many" THEN "s" ELSE ""),
                  toTableVar, tableVarName, table.columns[fi].name,
                  toTableVar, toTable.columns[ci].name)
    ELSE "  " \o LowerFirst(toTableVar)
              \o (IF relation.type = "many-to-many" THEN "s" ELSE "")
              \o ": many(" \o toTableVar \o "),\n"

\* outgoingRelations.forEach body, ti the index of toTable
OutgoingField(tbls, table, relation, ti) ==
    IF ti = 0 THEN ""
    ELSE IF ExportVar(tbls, relation.toTableId) = "" THEN ""
    ELSE OutgoingColumns(table, tbls[ti], ExportVar(tbls, table.id),
                         ExportVar(tbls, relation.toTableId), relation,
                         FindColumnById(table.columns, relation.fromColumnId),
                         FindColumnById(tbls[ti].columns, relation.toColumnId))

\* the same, were a reference written back for every cardinality
IncomingColumnsAnyType(table, fromTable, tableVarName, fromTableVar, relation, fi, ci) ==
    IF fi = 0 \/ ci = 0 THEN ""
    ELSE OneField(LowerFirst(fromTableVar), fromTableVar, tableVarName,
                  table.columns[ci].name, fromTableVar, fromTable.columns[fi].name)

\* incomingRelations.forEach body once both columns were looked up
IncomingColumns(table, fromTable, tableVarName, fromTableVar, relation, fi, ci) ==
    IF fi = 0 \/ ci = 0 THEN ""
    ELSE IF relation.type \in {"one-to-one", "one-to-many"}
    THEN OneField(LowerFirst(fromTableVar), fromTableVar, tableVarName,
                  table.columns[ci].name, fromTableVar, fromTable.columns[fi].name)
    ELSE ""

\* incomingRelations.forEach body, ti the index of fromTable
IncomingField(tbls, table, relation, ti) ==
    IF ti = 0 THEN ""
    ELSE IF ExportVar(tbls, relation.fromTableId) = "" THEN ""
    ELSE IncomingColumns(table, tbls[ti], ExportVar(tbls, table.id),
                         ExportVar(tbls, relation.fromTableId), relation,
                         FindColumnById(tbls[ti].columns, relation.fromColumnId),
                         FindColumnById(table.columns, relation.toColumnId))

\* outgoingRelations.forEach for the relations k..
RECURSIVE OutgoingFields(_, _, _, _)
OutgoingFields(tbls, rels, table, k) ==
    IF k > Len(rels) THEN ""
    ELSE (IF rels[k].fromTableId = table.id
          THEN OutgoingField(tbls, table, rels[k], FindTableIndex(tbls, rels[k].toTableId))
          ELSE "")
         \o OutgoingFields(tbls, rels, table, k + 1)

\* incomingRelations.forEach for the relations k..
RECURSIVE IncomingFields(_, _, _, _)
IncomingFields(tbls, rels, table, k) ==
    IF k > Len(rels) THEN ""
    ELSE (IF rels[k].toTableId = table.id
          THEN IncomingField(tbls, table, rels[k], FindTableIndex(tbls, rels[k].fromTableId))
          ELSE "")
         \o IncomingFields(tbls, rels, table, k + 1)

\* the relations block of one table, '' when it has no relation
RelationsBlockOf(tbls, rels, table) ==
    IF \E k \in 1..Len(rels) : rels[k].fromTableId = table.id \/ rels[k].toTableId = table.id
    THEN "export const " \o ExportVar(tbls, table.id) \o "Relations = relations("
             \o ExportVar(tbls, table.id) \o ", ({ one, many }) => ({\n"
             \o OutgoingFields(tbls, rels, table, 1)
             \o IncomingFields(tbls, rels, table, 1)
             \o "}))\n\n"
    ELSE ""

\* the second tables.value.forEach, for the tables k..
RECURSIVE RelationsBlocksOf(_, _, _)
RelationsBlocksOf(tbls, rels, k) ==
    IF k > Len(tbls) THEN ""
    ELSE RelationsBlockOf(tbls, rels, tbls[k]) \o RelationsBlocksOf(tbls, rels, k + 1)

ExportHeader ==
       "import { pgTable, text, integer, boolean, timestamp, date, jsonb, varchar, serial } from 'drizzle-orm/pg-core'\n"
    \o "import { relations } from 'drizzle-orm'\n\n"

exportToDrizzle(tbls, rels) ==
    ExportHeader \o TableDefinitions(tbls, 1) \o "\n"
        \o (IF Len(rels) > 0 THEN "// Relations\n\n" \o RelationsBlocksOf(tbls, rels, 1) ELSE "")

(***************************************************************************)
(* The store: useSchemaProvider                                            *)
(***************************************************************************)

MAX_HISTORY_SIZE == 50

Column(id, name, type, nullable, primaryKey, unique, autoIncrement) ==
    [id |-> id, name |-> name, type |-> type, nullable |-> nullable,
     primaryKey |-> primaryKey, unique |-> unique, autoIncrement |-> autoIncrement]

Relation(id, fromTableId, fromColumnId, toTableId, toColumnId, type) ==
    [id |-> id, fromTableId |-> fromTableId, fromColumnId |-> fromColumnId,
     toTableId |-> toTableId, toColumnId |-> toColumnId, type |-> type]

\* createPreviewSchema (positions rounded to integers)
PreviewTables ==
    << [id |-> "table-users", name |-> "users",
        position |-> [x |-> -105, y |-> -133], width |-> TableWidth,
        columns |-> <<
          Column("col-users-id", "id", "integer", FALSE, TRUE, TRUE, TRUE),
          Column("col-users-email", "email", "varchar", FALSE, FALSE, TRUE, FALSE),
          Column("col-users-name", "name", "varchar", FALSE, FALSE, FALSE, FALSE),
          Column("col-users-created", "created_at", "timestamp", FALSE, FALSE, FALSE, FALSE) >>],
       [id |-> "table-posts", name |-> "posts",
        position |-> [x |-> 551, y |-> 259], width |-> TableWidth,
        columns |-> <<
          Column("col-posts-id", "id", "integer", FALSE, TRUE, TRUE, TRUE),
          Column("col-posts-user-id", "user_id", "integer", FALSE, FALSE, FALSE, FALSE),
          Column("col-posts-title", "title", "varchar", FALSE, FALSE, FALSE, FALSE),
          Column("col-posts-content", "content", "text", TRUE, FALSE, FALSE, FALSE),
          Column("col-posts-created", "created_at", "timestamp", FALSE, FALSE, FALSE, FALSE) >>],
       [id |-> "table-comments", name |-> "comments",
        position |-> [x |-> 1245, y |-> -107], width |-> TableWidth,
        columns |-> <<
          Column("col-comments-id", "id", "integer", FALSE, TRUE, TRUE, TRUE),
          Column("col-comments-post-id", "post_id", "integer", FALSE, FALSE, FALSE, FALSE),
          Column("col-comments-user-id", "user_id", "integer", FALSE, FALSE, FALSE, FALSE),
          Column("col-comments-text", "text", "text", FALSE, FALSE, FALSE, FALSE),
          Column("col-comments-created", "created_at", "timestamp", FALSE, FALSE, FALSE, FALSE) >>] >>

PreviewRelations ==
    << Relation("rel-users-posts", "table-users", "col-users-id",
                "table-posts", "col-posts-user-id", "one-to-many"),
       Relation("rel-posts-comments", "table-posts", "col-posts-id",
                "table-comments", "col-comments-post-id", "one-to-many"),
       Relation("rel-users-comments", "table-users", "col-users-id",
                "table-comments", "col-comments-user-id", "one-to-many") >>

createSnapshot(tbls, rels) == [tables |-> tbls, relations |-> rels]

Nil == [open |-> FALSE, fromTableId |-> "", fromColumnId |-> "", toTableId |-> "", toColumnId |-> ""]

\* the latest call of importFromDrizzle as its caller sees it: how many calls
\* there were, the text of the latest and what it returned
NotImported == [n |-> 0, code |-> "", success |-> FALSE, error |-> ""]

\* the state useSchemaProvider leaves when localStorage holds no schema
InitStore ==
    /\ tables = PreviewTables
    /\ relations = PreviewRelations
    /\ tableCounter = 3
    /\ columnCounter = 14
    /\ relationCounter = 3
    /\ history = <<createSnapshot(PreviewTables, PreviewRelations)>>
    /\ historyIndex = 0
    /\ canUndo = FALSE
    /\ canRedo = FALSE
    /\ pendingRelation = Nil
    /\ lastImport = NotImported

\* no autoArrange call was made: const isAutoArranging = ref(false)
NotArranged == [done |-> FALSE, success |-> FALSE, error |-> ""]

InitArrange ==
    /\ isAutoArranging = FALSE
    /\ layouts = <<>>
    /\ arrangeRet = NotArranged

PushedHistoryKeepingRedo == Append(history, createSnapshot(tables, relations))

\* history after the truncation and push of saveToHistory
PushedHistory ==
    Append(IF historyIndex < Len(history) - 1 THEN SubSeq(history, 1, historyIndex + 1)
           ELSE history,
           createSnapshot(tables, relations))

\* saveToHistory, followed by updateHistoryState
saveToHistory ==
    /\ history' = IF Len(PushedHistory) > MAX_HISTORY_SIZE THEN Tail(PushedHistory)
                  ELSE PushedHistory
    /\ historyIndex' = IF Len(PushedHistory) > MAX_HISTORY_SIZE THEN historyIndex
                       ELSE historyIndex + 1
    /\ canUndo' = (historyIndex' > 0)
    /\ canRedo' = (historyIndex' < Len(history') - 1)

\* restoreFromSnapshot, followed by updateHistoryState
restoreFromSnapshot(snapshot) ==
    /\ tables' = snapshot.tables
    /\ relations' = snapshot.relations
    /\ canUndo' = (historyIndex' > 0)
    /\ canRedo' = (historyIndex' < Len(history) - 1)

undo ==
    /\ canUndo
    /\ historyIndex' = historyIndex - 1
    /\ IF historyIndex' >= 0 /\ historyIndex' < Len(history)
       THEN restoreFromSnapshot(history[historyIndex' + 1])
       ELSE UNCHANGED <<tables, relations, canUndo, canRedo>>
    /\ UNCHANGED <<history, tableCounter, columnCounter, relationCounter,
                   pendingRelation, lastImport>>

redo ==
    /\ canRedo
    /\ historyIndex' = historyIndex + 1
    /\ IF historyIndex' >= 0 /\ historyIndex' < Len(history)
       THEN restoreFromSnapshot(history[historyIndex' + 1])
       ELSE UNCHANGED <<tables, relations, canUndo, canRedo>>
    /\ UNCHANGED <<history, tableCounter, columnCounter, relationCounter,
                   pendingRelation, lastImport>>

addTable ==
    /\ saveToHistory
    /\ tableCounter' = tableCounter + 1
    /\ columnCounter' = columnCounter + 1
    /\ tables' = Append(tables,
                    [id |-> TableId(tableCounter + 1),
                     name |-> "table_" \o ToString(tableCounter + 1),
                     position |-> [x |-> 100 + (tableCounter + 1) * 50,
                                   y |-> 100 + (tableCounter + 1) * 50],
                     width |-> TableWidth,
                     columns |-> <<Column(ColumnId(columnCounter + 1), "id", "integer",
                                          FALSE, TRUE, TRUE, TRUE)>>])
    /\ UNCHANGED <<relations, relationCounter, pendingRelation, lastImport>>

deleteTable(tableId) ==
    /\ saveToHistory
    /\ tables' = SelectSeq(tables, LAMBDA t : t.id # tableId)
    /\ relations' = SelectSeq(relations,
                        LAMBDA r : r.fromTableId # tableId /\ r.toTableId # tableId)
    /\ UNCHANGED <<tableCounter, columnCounter, relationCounter, pendingRelation, lastImport>>

addColumn(tableId) ==
    /\ saveToHistory
    /\ LET ti == FindTableIndex(tables, tableId)
       IN IF ti # 0
          THEN /\ columnCounter' = columnCounter + 1
               /\ tables' = [tables EXCEPT ![ti].columns =
                                Append(@, Column(ColumnId(columnCounter + 1),
                                                 "column_" \o ToString(columnCounter + 1),
                                                 "varchar", TRUE, FALSE, FALSE, FALSE))]
          ELSE UNCHANGED <<columnCounter, tables>>
    /\ UNCHANGED <<relations, tableCounter, relationCounter, pendingRelation, lastImport>>

deleteColumn(tableId, columnId) ==
    /\ saveToHistory
    /\ LET ti == FindTableIndex(tables, tableId)
       IN IF ti # 0
          THEN /\ tables' = [tables EXCEPT ![ti].columns =
                                SelectSeq(@, LAMBDA c : c.id # columnId)]
               /\ relations' = SelectSeq(relations, LAMBDA r :
                                    /\ ~(r.fromTableId = tableId /\ r.fromColumnId = columnId)
                                    /\ ~(r.toTableId = tableId /\ r.toColumnId = columnId))
          ELSE UNCHANGED <<tables, relations>>
    /\ UNCHANGED <<tableCounter, columnCounter, relationCounter, pendingRelation, lastImport>>

addRelation(relation) ==
    /\ saveToHistory
    /\ relationCounter' = relationCounter + 1
    /\ relations' = Append(relations,
                        Relation(RelationId(relationCounter + 1), relation.fromTableId,
                                 relation.fromColumnId, relation.toTableId,
                                 relation.toColumnId, relation.type))
    /\ UNCHANGED <<tables, tableCounter, columnCounter, lastImport>>

deleteRelation(relationId) ==
    /\ saveToHistory
    /\ relations' = SelectSeq(relations, LAMBDA r : r.id # relationId)
    /\ UNCHANGED <<tables, tableCounter, columnCounter, relationCounter,
                   pendingRelation, lastImport>>

\* relations.value.findIndex(r => r.id === relationId): 0 for -1
FindRelationIndex(rels, relationId) ==
    FirstOr({i \in 1..Len(rels) : rels[i].id = relationId}, 0)

\* updates is a record holding the fields to overwrite
updateRelation(relationId, updates) ==
    LET index == FindRelationIndex(relations, relationId)
    IN /\ index # 0
       /\ saveToHistory
       /\ relations' = [relations EXCEPT ![index] =
                           [f \in DOMAIN @ |-> IF f \in DOMAIN updates THEN updates[f] ELSE @[f]]]
       /\ UNCHANGED <<tables, tableCounter, columnCounter, relationCounter,
                      pendingRelation, lastImport>>

validateRelation(fromTableId, fromColumnId, toTableId, toColumnId) ==
    /\ fromTableId # toTableId
    /\ ~\E i \in 1..Len(relations) :
          /\ relations[i].fromTableId = fromTableId /\ relations[i].fromColumnId = fromColumnId
          /\ relations[i].toTableId = toTableId /\ relations[i].toColumnId = toColumnId
    /\ ~\E i \in 1..Len(relations) :
          /\ relations[i].fromTableId = toTableId /\ relations[i].fromColumnId = toColumnId
          /\ relations[i].toTableId = fromTableId /\ relations[i].toColumnId = fromColumnId

\* texts handed to importFromDrizzle by the import dialog or the chat panel
ImportNothing == "const answer = 42\n"
ImportUnclosed == "export const users = pgTable('users', {\n  id: serial('id'),\n"
ImportOneTable ==
    "export const tags = pgTable('tags', {\n  id: serial('id').primaryKey(),\n  label: varchar('label', { length: 255 }).notNull(),\n});\n"
ImportTwoTables ==
       "export const users = pgTable('users', {\n  id: serial('id').primaryKey(),\n});\n\n"
    \o "export const posts = pgTable('posts', {\n  id: serial('id').primaryKey(),\n"
    \o "  user_id: integer('user_id').notNull().references(() => users.id),\n});\n"

ImportTexts == {ImportNothing, ImportUnclosed, ImportOneTable, ImportTwoTables}

\* the parse of each of these texts, computed once
ParseOf == [code \in ImportTexts |-> ParseDrizzle(code)]
Parsed(code) == ParseOf[code]

\* what the call leaves in the counters and returns to its caller
ImportOutcome(code, p) ==
    /\ tableCounter' = p.tableCounter
    /\ columnCounter' = p.columnCounter
    /\ relationCounter' = p.relationCounter
    /\ lastImport' = [n |-> lastImport.n + 1, code |-> code,
                      success |-> p.success, error |-> p.error]
    /\ UNCHANGED pendingRelation

\* an importFromDrizzle that replaces the schema before it looks at what
\* the parse found
importBeforeCheck(code) ==
    /\ ImportOutcome(code, Parsed(code))
    /\ saveToHistory
    /\ tables' = Parsed(code).tables
    /\ relations' = Parsed(code).relations

\* importFromDrizzle: the counters are reset before the parse, the store is
\* replaced only when a table was found
importFromDrizzle(code) ==
    /\ ImportOutcome(code, Parsed(code))
    /\ IF Parsed(code).success
       THEN /\ saveToHistory
            /\ tables' = Parsed(code).tables
            /\ relations' = Parsed(code).relations
       ELSE UNCHANGED <<tables, relations, history, historyIndex, canUndo, canRedo>>

(***************************************************************************)
(* Callers of the store: SchemaTable / SchemaCanvas / RelationEditor /     *)
(* Toolbar / ChatAside handlers, with the inputs the model gives them      *)
(***************************************************************************)

\* number of store operations in a behaviour
MaxOps == 3

\* the tables, columns and relations the model clicks on: the first and the last
EndsOf(seq) == IF Len(seq) = 0 THEN {} ELSE {1, Len(seq)}

ColumnPoints ==
    UNION {{[tableId |-> tables[t].id, columnId |-> tables[t].columns[c].id] :
               c \in EndsOf(tables[t].columns)} : t \in EndsOf(tables)}

FirstColumnPoints ==
    {[tableId |-> tables[t].id, columnId |-> tables[t].columns[1].id] :
        t \in {i \in EndsOf(tables) : Len(tables[i].columns) > 0}}

\* the scanner and parser calls of the other specifications, not made here
NotCalled == [done |-> FALSE, value |-> null]
NoParts == [done |-> FALSE, value |-> <<>>]
NoScan == [source |-> "", openPos |-> 0, openChar |-> "(", closeChar |-> ")"]
NoParse == [kind |-> "", text |-> "", tables |-> <<>>, relations |-> <<>>,
            refs |-> <<>>, word |-> "", flag |-> FALSE]
NoResult == [success |-> FALSE, error |-> "", tables |-> <<>>, relations |-> <<>>,
             tableCounter |-> 0, columnCounter |-> 0, relationCounter |-> 0]
NotParsed == [done |-> FALSE, result |-> NoResult, again |-> ""]

Step == opCount < MaxOps /\ opCount' = opCount + 1

\* what an observer of the store notes of a handler call: the schema before
\* it, and whether the call was undo, was redo, or recorded history
NoStep == [tables |-> <<>>, relations |-> <<>>, kind |-> "none"]

Observed(call) ==
    lastStep' = [tables |-> tables, relations |-> relations,
                 kind |-> IF call # "edit" THEN call
                          ELSE IF history' # history \/ historyIndex' # historyIndex
                               THEN "recorded"
                          ELSE "none"]

\* the relation type modal covers the canvas while pendingRelation is set
NoModal == ~pendingRelation.open

\* Toolbar add-table button
ClickAddTable ==
    /\ Step /\ NoModal
    /\ addTable
    /\ Observed("edit") /\ UNCHANGED <<scanVars, splitVars, parseVars, arrangeVars>>

\* SchemaTable handlers
ClickAddColumn ==
    /\ Step /\ NoModal
    /\ \E t \in EndsOf(tables) : addColumn(tables[t].id)
    /\ Observed("edit") /\ UNCHANGED <<scanVars, splitVars, parseVars, arrangeVars>>

ClickDeleteTable ==
    /\ Step /\ NoModal
    /\ \E t \in EndsOf(tables) : deleteTable(tables[t].id)
    /\ Observed("edit") /\ UNCHANGED <<scanVars, splitVars, parseVars, arrangeVars>>

\* the last column of a table is not deleted
ClickDeleteColumn ==
    /\ Step /\ NoModal
    /\ \E t \in EndsOf(tables) :
          /\ Len(tables[t].columns) > 1
          /\ \E c \in EndsOf(tables[t].columns) :
                 deleteColumn(tables[t].id, tables[t].columns[c].id)
    /\ Observed("edit") /\ UNCHANGED <<scanVars, splitVars, parseVars, arrangeVars>>

\* SchemaTable drop (source and target in different tables) followed by
\* SchemaCanvas handleRelationDrop
handleRelationDrop ==
    /\ Step /\ NoModal
    /\ \E source \in FirstColumnPoints, target \in ColumnPoints :
          /\ source.tableId # target.tableId
          /\ validateRelation(source.tableId, source.columnId, target.tableId, target.columnId)
          /\ pendingRelation' = [open |-> TRUE,
                                 fromTableId |-> source.tableId, fromColumnId |-> source.columnId,
                                 toTableId |-> target.tableId, toColumnId |-> target.columnId]
    /\ UNCHANGED <<tables, relations, tableCounter, columnCounter, relationCounter,
                   history, historyIndex, canUndo, canRedo, lastImport>>
    /\ Observed("edit") /\ UNCHANGED <<scanVars, splitVars, parseVars, arrangeVars>>

RelationTypes == {"one-to-one", "one-to-many", "many-to-many"}

handleRelationConfirm ==
    /\ Step
    /\ pendingRelation.open
    /\ \E type \in RelationTypes :
          addRelation([fromTableId |-> pendingRelation.fromTableId,
                       fromColumnId |-> pendingRelation.fromColumnId,
                       toTableId |-> pendingRelation.toTableId,
                       toColumnId |-> pendingRelation.toColumnId,
                       type |-> type])
    /\ pendingRelation' = Nil
    /\ Observed("edit") /\ UNCHANGED <<scanVars, splitVars, parseVars, arrangeVars>>

handleRelationCancel ==
    /\ Step
    /\ pendingRelation.open
    /\ pendingRelation' = Nil
    /\ UNCHANGED <<tables, relations, tableCounter, columnCounter, relationCounter,
                   history, historyIndex, canUndo, canRedo, lastImport>>
    /\ Observed("edit") /\ UNCHANGED <<scanVars, splitVars, parseVars, arrangeVars>>

\* RelationEditor handlers, on the relation the editor was opened for
handleTypeChange ==
    /\ Step /\ NoModal
    /\ \E r \in EndsOf(relations), newType \in RelationTypes :
          /\ newType # relations[r].type
          /\ updateRelation(relations[r].id, [type |-> newType])
    /\ Observed("edit") /\ UNCHANGED <<scanVars, splitVars, parseVars, arrangeVars>>

handleFromTableChange ==
    /\ Step /\ NoModal
    /\ \E r \in EndsOf(relations), t \in EndsOf(tables) :
          /\ Len(tables[t].columns) > 0
          /\ updateRelation(relations[r].id,
                            [fromTableId |-> tables[t].id,
                             fromColumnId |-> tables[t].columns[1].id])
    /\ Observed("edit") /\ UNCHANGED <<scanVars, splitVars, parseVars, arrangeVars>>

handleToTableChange ==
    /\ Step /\ NoModal
    /\ \E r \in EndsOf(relations), t \in EndsOf(tables) :
          /\ Len(tables[t].columns) > 0
          /\ updateRelation(relations[r].id,
                            [toTableId |-> tables[t].id,
                             toColumnId |-> tables[t].columns[1].id])
    /\ Observed("edit") /\ UNCHANGED <<scanVars, splitVars, parseVars, arrangeVars>>

\* the column selects list the columns of the relation's current table
handleFromColumnChange ==
    /\ Step /\ NoModal
    /\ \E r \in EndsOf(relations) :
          LET ti == FindTableIndex(tables, relations[r].fromTableId)
          IN /\ ti # 0
             /\ \E c \in EndsOf(tables[ti].columns) :
                   updateRelation(relations[r].id, [fromColumnId |-> tables[ti].columns[c].id])
    /\ Observed("edit") /\ UNCHANGED <<scanVars, splitVars, parseVars, arrangeVars>>

handleToColumnChange ==
    /\ Step /\ NoModal
    /\ \E r \in EndsOf(relations) :
          LET ti == FindTableIndex(tables, relations[r].toTableId)
          IN /\ ti # 0
             /\ \E c \in EndsOf(tables[ti].columns) :
                   updateRelation(relations[r].id, [toColumnId |-> tables[ti].columns[c].id])
    /\ Observed("edit") /\ UNCHANGED <<scanVars, splitVars, parseVars, arrangeVars>>

handleDelete ==
    /\ Step /\ NoModal
    /\ \E r \in EndsOf(relations) : deleteRelation(relations[r].id)
    /\ Observed("edit") /\ UNCHANGED <<scanVars, splitVars, parseVars, arrangeVars>>

\* Toolbar handleImportConfirm, or the chat panel importing a generated
\* schema when its request completes
handleImportConfirm ==
    /\ Step
    /\ \E code \in ImportTexts : importFromDrizzle(code)
    /\ Observed("edit") /\ UNCHANGED <<scanVars, splitVars, parseVars, arrangeVars>>

\* Toolbar buttons and the document-level Ctrl+Z / Ctrl+Y handler
handleUndo ==
    /\ Step
    /\ undo
    /\ Observed("undo") /\ UNCHANGED <<scanVars, splitVars, parseVars, arrangeVars>>

handleRedo ==
    /\ Step
    /\ redo
    /\ Observed("redo") /\ UNCHANGED <<scanVars, splitVars, parseVars, arrangeVars>>

Init ==
    /\ InitStore
    /\ opCount = 0
    /\ scanArgs = NoScan
    /\ scanRet = NotCalled
    /\ splitArg = ""
    /\ splitRet = NoParts
    /\ parseArg = NoParse
    /\ parseRet = NotParsed
    /\ InitArrange
    /\ lastStep = NoStep

Next ==
    \/ ClickAddTable
    \/ ClickAddColumn
    \/ ClickDeleteTable
    \/ ClickDeleteColumn
    \/ handleRelationDrop
    \/ handleRelationConfirm
    \/ handleRelationCancel
    \/ handleTypeChange
    \/ handleFromTableChange
    \/ handleToTableChange
    \/ handleFromColumnChange
    \/ handleToColumnChange
    \/ handleDelete
    \/ handleImportConfirm
    \/ handleUndo
    \/ handleRedo

Spec == Init /\ [][Next]_vars

(***************************************************************************)
(* autoArrange: the layout of the tables is computed while the call is     *)
(* suspended, and the chat panel calls it after an import                  *)
(***************************************************************************)

HEADER_HEIGHT == 68
TABLE_PADDING_Y == 12 * 2
COLUMN_GROUP_HEIGHT == 20 + 48
MIN_TABLE_HEIGHT == 140
Padding == 80
NodeSpacing == 120
LayerSpacing == 160

estimateTableHeight(table) ==
    IF HEADER_HEIGHT + TABLE_PADDING_Y + Len(table.columns) * COLUMN_GROUP_HEIGHT < MIN_TABLE_HEIGHT
    THEN MIN_TABLE_HEIGHT
    ELSE HEADER_HEIGHT + TABLE_PADDING_Y + Len(table.columns) * COLUMN_GROUP_HEIGHT

\* Math.max(1, Math.ceil(Math.sqrt(n))) for n >= 1
GridColumns(n) == CHOOSE c \in 1..n : c * c >= n /\ (c - 1) * (c - 1) < n

\* relations.some(...): a relation joins two different tables of the call
hasAnyEdges(tbls, rels) ==
    \E r \in 1..Len(rels) :
        /\ FindTableIndex(tbls, rels[r].fromTableId) # 0
        /\ FindTableIndex(tbls, rels[r].toTableId) # 0
        /\ rels[r].fromTableId # rels[r].toTableId

\* the positions of the grid computeElkLayout returns without a layout run
GridPositions(tbls) ==
    [k \in 1..Len(tbls) |->
        [id |-> tbls[k].id,
         position |-> [x |-> ((k - 1) % GridColumns(Len(tbls))) * (tbls[k].width + NodeSpacing)
                                 + Padding,
                       y |-> ((k - 1) \div GridColumns(Len(tbls)))
                                 * (estimateTableHeight(tbls[k]) + LayerSpacing) + Padding]]]

\* positions a layout run can return for the tables, moved so that the
\* least x and y are the padding: the tables in one row or in one column
ElkShapes == {"row", "column"}

ElkPositions(tbls, shape) ==
    [k \in 1..Len(tbls) |->
        [id |-> tbls[k].id,
         position |-> IF shape = "row"
                      THEN [x |-> Padding + (k - 1) * (tbls[k].width + LayerSpacing), y |-> Padding]
                      ELSE [x |-> Padding,
                            y |-> Padding + (k - 1) * (estimateTableHeight(tbls[1]) + NodeSpacing)]]]

\* positions[t.id]: the index of the last entry with this id, 0 if none
PositionIndex(positions, id) ==
    IF \E k \in 1..Len(positions) : positions[k].id = id
    THEN CHOOSE k \in 1..Len(positions) :
             /\ positions[k].id = id
             /\ \A j \in 1..Len(positions) : positions[j].id = id => j <= k
    ELSE 0

\* the loop of updateTable(t.id, { position }) calls, none of which
\* records history
Repositioned(tbls, positions) ==
    [k \in 1..Len(tbls) |->
        IF PositionIndex(positions, tbls[k].id) = 0 THEN tbls[k]
        ELSE [tbls[k] EXCEPT !.position = positions[PositionIndex(positions, tbls[k].id)].position]]

ArrangeRunning == [done |-> TRUE, success |-> FALSE, error |-> "Auto-arrange is already running"]
ArrangeNoTables == [done |-> TRUE, success |-> FALSE, error |-> "No tables to arrange"]
ArrangeFailed == [done |-> TRUE, success |-> FALSE, error |-> "Failed to auto-arrange"]
ArrangeDone == [done |-> TRUE, success |-> TRUE, error |-> ""]

\* the layout call of an autoArrange call over the tables and relations
\* of the store; elk: the call runs a layout and is answered by a later task
LayoutCall(tbls, rels) == [tables |-> tbls, elk |-> hasAnyEdges(tbls, rels)]

WithoutCall(calls, k) == SubSeq(calls, 1, k - 1) \o SubSeq(calls, k + 1, Len(calls))

\* autoArrange up to its await, were the flag not looked at
autoArrangeUnguarded(tbls, rels) ==
    IF Len(tbls) = 0
    THEN /\ arrangeRet' = ArrangeNoTables
         /\ UNCHANGED <<isAutoArranging, layouts>>
    ELSE /\ isAutoArranging' = TRUE
         /\ layouts' = Append(layouts, LayoutCall(tbls, rels))
         /\ UNCHANGED arrangeRet

\* autoArrange up to its await, called when the store holds tbls and rels
autoArrange(tbls, rels) ==
    IF isAutoArranging
    THEN /\ arrangeRet' = ArrangeRunning
         /\ UNCHANGED <<isAutoArranging, layouts>>
    ELSE IF Len(tbls) = 0
    THEN /\ arrangeRet' = ArrangeNoTables
         /\ UNCHANGED <<isAutoArranging, layouts>>
    ELSE /\ isAutoArranging' = TRUE
         /\ layouts' = Append(layouts, LayoutCall(tbls, rels))
         /\ UNCHANGED arrangeRet

\* a grid is returned by a promise that is already resolved: the call goes
\* on before any other handler runs
NoGridAwaited == \A k \in 1..Len(layouts) : layouts[k].elk

\* autoArrange after its await, were history recorded with every table moved
autoArrangeSavingTwice(k, positions) ==
    /\ history' = Append(Append(history, createSnapshot(tables, relations)),
                         createSnapshot(tables, relations))
    /\ historyIndex' = historyIndex + 2
    /\ canUndo' = TRUE
    /\ canRedo' = FALSE
    /\ tables' = Repositioned(tables, positions)
    /\ isAutoArranging' = FALSE
    /\ layouts' = WithoutCall(layouts, k)
    /\ arrangeRet' = ArrangeDone
    /\ UNCHANGED <<relations, tableCounter, columnCounter, relationCounter,
                   pendingRelation, lastImport>>

\* autoArrange after its await, the layout call k answered with positions
autoArrangeResumed(k, positions) ==
    /\ saveToHistory
    /\ tables' = Repositioned(tables, positions)
    /\ isAutoArranging' = FALSE
    /\ layouts' = WithoutCall(layouts, k)
    /\ arrangeRet' = ArrangeDone
    /\ UNCHANGED <<relations, tableCounter, columnCounter, relationCounter,
                   pendingRelation, lastImport>>

\* the layout call k is answered
layoutResolved ==
    \E k \in 1..Len(layouts) :
        /\ (NoGridAwaited \/ ~layouts[k].elk)
        /\ \E shape \in ElkShapes :
               autoArrangeResumed(k, IF layouts[k].elk THEN ElkPositions(layouts[k].tables, shape)
                                     ELSE GridPositions(layouts[k].tables))
        /\ UNCHANGED <<opCount, scanVars, splitVars, parseVars, lastStep>>

\* the layout run of call k throws: catch and finally of autoArrange
layoutRejected ==
    \E k \in 1..Len(layouts) :
        /\ layouts[k].elk
        /\ NoGridAwaited
        /\ isAutoArranging' = FALSE
        /\ layouts' = WithoutCall(layouts, k)
        /\ arrangeRet' = ArrangeFailed
        /\ UNCHANGED <<storeVars, opCount, scanVars, splitVars, parseVars, lastStep>>

\* ChatAside send once the answer of the model has arrived: the schema in
\* it is imported and, if that succeeds, arranged
send ==
    /\ Step
    /\ NoGridAwaited
    /\ \E code \in ImportTexts :
          /\ importFromDrizzle(code)
          /\ IF Parsed(code).success
             THEN autoArrange(Parsed(code).tables, Parsed(code).relations)
             ELSE UNCHANGED arrangeVars
    /\ Observed("edit")
    /\ UNCHANGED <<scanVars, splitVars, parseVars>>

\* the handlers that can run while a layout is awaited
DeleteTableMeanwhile == NoGridAwaited /\ ClickDeleteTable
ImportMeanwhile == NoGridAwaited /\ handleImportConfirm
UndoMeanwhile == NoGridAwaited /\ handleUndo
RedoMeanwhile == NoGridAwaited /\ handleRedo

NextArrange ==
    \/ send
    \/ layoutResolved
    \/ layoutRejected
    \/ DeleteTableMeanwhile
    \/ ImportMeanwhile
    \/ UndoMeanwhile
    \/ RedoMeanwhile

SpecArrange == Init /\ [][NextArrange]_vars

\* ---------------------------------------------------------------------------
\* A session that has already recorded many edits: the type select of the
\* first preview relation was switched n times, to one-to-one and back.
\* ---------------------------------------------------------------------------

SwitchedType(i) == IF i % 2 = 1 THEN "one-to-one" ELSE "one-to-many"

\* relations after i calls of handleTypeChange on the first relation
SwitchedRelations(i) == [PreviewRelations EXCEPT ![1].type = SwitchedType(i)]

\* saveToHistory pushed, before the j-th call, the schema the calls before it left
SwitchedHistory(n) ==
    <<createSnapshot(PreviewTables, PreviewRelations)>> \o
    [j \in 1..n |-> createSnapshot(PreviewTables, SwitchedRelations(j - 1))]

\* a fresh session, and one whose history is full: the next push shifts it
SessionLengths == {0, MAX_HISTORY_SIZE - 1}

InitSession(n) ==
    /\ n < MAX_HISTORY_SIZE
    /\ tables = PreviewTables
    /\ relations = SwitchedRelations(n)
    /\ tableCounter = 3
    /\ columnCounter = 14
    /\ relationCounter = 3
    /\ history = SwitchedHistory(n)
    /\ historyIndex = n
    /\ canUndo = (n > 0)
    /\ canRedo = FALSE
    /\ pendingRelation = Nil
    /\ lastImport = NotImported
    /\ lastStep = IF n = 0 THEN NoStep
                  ELSE [tables |-> PreviewTables, relations |-> SwitchedRelations(n - 1),
                        kind |-> "recorded"]

InitHistory ==
    /\ \E n \in SessionLengths : InitSession(n)
    /\ opCount = 0
    /\ scanArgs = NoScan
    /\ scanRet = NotCalled
    /\ splitArg = ""
    /\ splitRet = NoParts
    /\ parseArg = NoParse
    /\ parseRet = NotParsed
    /\ InitArrange

\* the handlers that record history without a modal, and undo and redo
NextHistory ==
    \/ ClickAddTable
    \/ ClickAddColumn
    \/ ClickDeleteTable
    \/ ClickDeleteColumn
    \/ handleTypeChange
    \/ handleDelete
    \/ handleImportConfirm
    \/ handleUndo
    \/ handleRedo

SpecHistory == InitHistory /\ [][NextHistory]_vars
(***************************************************************************)
(* Calls of the two scanner functions on bounded texts                     *)
(***************************************************************************)

\* longest text of the exhaustive families, most segments of the composed ones
MaxScanLen == 4
MaxScanSegs == 2
MaxSplitLen == 4
MaxSplitSegs == 2

\* the texts made of at most n pieces of A
RECURSIVE StrsOver(_, _)
StrsOver(A, n) ==
    IF n = 0 THEN {""}
    ELSE StrsOver(A, n - 1) \cup {s \o c : s \in StrsOver(A, n - 1), c \in A}

ScanAlphabet == {"(", ")", "'", BackQuote, "\\", "/", "*", "\n"}

ScanSegments ==
    {"(", ")", "x", "'x'", "'\\''", "')'", "'\\')('", "\"(')\"", "^)^",
     "//)\n", "//'\n", "/*(*/", "/*'*/", "'//'", "'/*'", "{", "}"}

ScanPrefixes == {"", "f", "')' "}

\* every text of at most len characters after an open paren, and the
\* texts of at most segs segments after a prefix and an open delimiter
ScanInputs(len, segs) ==
    {[source |-> "(" \o b, openPos |-> 0, openChar |-> "(", closeChar |-> ")"] :
        b \in StrsOver(ScanAlphabet, len)}
    \cup
    {[source |-> p \o d[1] \o b, openPos |-> Len(p), openChar |-> d[1], closeChar |-> d[2]] :
        p \in ScanPrefixes,
        d \in {<<"(", ")">>, <<"{", "}">>},
        b \in StrsOver(ScanSegments, segs)}

SplitAlphabet == {",", "(", ")", "'", "/", "\n", " ", "a"}

SplitSegments ==
    {"a", ",", " ", "f(1,2)", "{x:1,y:2}", "[1,2]", "','", "'\\','", "\",\"",
     "//,\n", "/*,*/", "(", ")", "[", "}", "\n"}

SplitExample == "a: f(1,2), b: g({x:1,y:2})"

SplitInputs(len, segs) ==
    StrsOver(SplitAlphabet, len) \cup StrsOver(SplitSegments, segs)
        \cup {SplitExample}

CallScanToMatching ==
    /\ ~scanRet.done
    /\ scanRet' = [done |-> TRUE,
                   value |-> scanToMatching(scanArgs.source, scanArgs.openPos,
                                            scanArgs.openChar, scanArgs.closeChar)]
    /\ UNCHANGED <<scanArgs, storeVars, opCount, splitVars, parseVars, arrangeVars, lastStep>>

CallSplitTopLevelComma ==
    /\ ~splitRet.done
    /\ splitRet' = [done |-> TRUE, value |-> splitTopLevelComma(splitArg)]
    /\ UNCHANGED <<splitArg, storeVars, opCount, scanVars, parseVars, arrangeVars, lastStep>>

InitScan ==
    /\ InitStore
    /\ opCount = 0
    /\ scanArgs \in ScanInputs(MaxScanLen, MaxScanSegs)
    /\ scanRet = NotCalled
    /\ splitArg = ""
    /\ splitRet = NoParts
    /\ parseArg = NoParse
    /\ parseRet = NotParsed
    /\ InitArrange
    /\ lastStep = NoStep

SpecScan == InitScan /\ [][CallScanToMatching]_vars

InitSplit ==
    /\ InitStore
    /\ opCount = 0
    /\ scanArgs = NoScan
    /\ scanRet = NotCalled
    /\ splitArg \in SplitInputs(MaxSplitLen, MaxSplitSegs)
    /\ splitRet = NoParts
    /\ parseArg = NoParse
    /\ parseRet = NotParsed
    /\ InitArrange
    /\ lastStep = NoStep

SpecSplit == InitSplit /\ [][CallSplitTopLevelComma]_vars

(***************************************************************************)
(* What the two scanner functions are to compute, stated over the whole    *)
(* text: which characters are code, and which code characters balance      *)
(***************************************************************************)

\* the indices from i on that hold code: no character of a string literal
\* (its quotes and escapes included) or of a comment.  mode is "" in code,
\* the quote inside a string, "//" or "/*" inside a comment
RECURSIVE CodeIndices(_, _, _)
CodeIndices(text, i, mode) ==
    IF i >= Len(text) THEN {}
    ELSE IF mode = "//"
    THEN CodeIndices(text, i + 1, IF Ch(text, i) = "\n" THEN "" ELSE mode)
    ELSE IF mode = "/*"
    THEN IF Slice(text, i, i + 2) = "*/" THEN CodeIndices(text, i + 2, "")
         ELSE CodeIndices(text, i + 1, mode)
    ELSE IF mode # ""
    THEN IF Ch(text, i) = "\\" THEN CodeIndices(text, i + 2, mode)
         ELSE CodeIndices(text, i + 1, IF Ch(text, i) = mode THEN "" ELSE mode)
    ELSE IF Slice(text, i, i + 2) \in {"//", "/*"}
    THEN CodeIndices(text, i + 2, Slice(text, i, i + 2))
    ELSE IF Ch(text, i) \in {"'", "\"", BackQuote}
    THEN CodeIndices(text, i + 1, Ch(text, i))
    ELSE {i} \cup CodeIndices(text, i + 1, "")

\* how many indices of C up to j hold the character c
CountUpTo(text, C, c, j) == Cardinality({k \in C : k <= j /\ Ch(text, k) = c})

\* the open delimiters still waiting for their close after the code
\* character at j, the one at openIndex included
OpenAfter(text, C, open, close, j) ==
    1 + CountUpTo(text, C, open, j) - CountUpTo(text, C, close, j)

\* of the code after openIndex, the first character that leaves no open
\* delimiter waiting: the close that balances text[openIndex]; null if none
BalancingIndex(text, C, open, close) ==
    FirstOr({j \in C : OpenAfter(text, C, open, close, j) = 0}, null)

BalancingClose(text, openIndex, open, close) ==
    BalancingIndex(text, CodeIndices(text, openIndex + 1, ""), open, close)

\* the depth of one delimiter pair before index j, counted over the code
\* indices C from i on; a close without its open is not counted
RECURSIVE NestingBefore(_, _, _, _, _, _, _)
NestingBefore(text, C, open, close, i, j, depth) ==
    IF i >= j THEN depth
    ELSE NestingBefore(text, C, open, close, i + 1, j,
             IF i \notin C THEN depth
             ELSE IF Ch(text, i) = open THEN depth + 1
             ELSE IF Ch(text, i) = close /\ depth > 0 THEN depth - 1
             ELSE depth)

\* the commas the text is cut at
TopLevelCommas(text, C) ==
    {j \in C : /\ Ch(text, j) = ","
               /\ NestingBefore(text, C, "(", ")", 0, j, 0) = 0
               /\ NestingBefore(text, C, "{", "}", 0, j, 0) = 0
               /\ NestingBefore(text, C, "[", "]", 0, j, 0) = 0}

\* the pieces between the cuts from index start on, trimmed, the empty ones left out
RECURSIVE PiecesFrom(_, _, _)
PiecesFrom(text, cuts, start) ==
    IF {j \in cuts : j >= start} = {}
    THEN (IF Trim(SliceFrom(text, start)) = "" THEN <<>> ELSE <<Trim(SliceFrom(text, start))>>)
    ELSE (IF Trim(Slice(text, start, FirstOr({j \in cuts : j >= start}, null))) = "" THEN <<>>
          ELSE <<Trim(Slice(text, start, FirstOr({j \in cuts : j >= start}, null)))>>)
         \o PiecesFrom(text, cuts, FirstOr({j \in cuts : j >= start}, null) + 1)

TopLevelPieces(text) == PiecesFrom(text, TopLevelCommas(text, CodeIndices(text, 0, "")), 0)

(***************************************************************************)
(* Calls of the generator and the parser on bounded schemas and texts      *)
(***************************************************************************)

\* pieces of hand-written Drizzle source
ColumnLine(prop, expr) == "  " \o prop \o ": " \o expr \o ",\n"

TableText(var, name, lines) ==
    "export const " \o var \o " = pgTable('" \o name \o "', {\n" \o lines \o "});\n\n"

RelationsText(var, fields) ==
    "export const " \o var \o "Relations = relations(" \o var
        \o ", ({ one, many }) => ({\n" \o fields \o "}));\n\n"

OneText(field, target, fkVar, fkCol, refVar, refCol) ==
    "  " \o field \o ": one(" \o target \o ", { fields: [" \o fkVar \o "." \o fkCol
        \o "], references: [" \o refVar \o "." \o refCol \o "] }),\n"

ManyText(field, target) == "  " \o field \o ": many(" \o target \o "),\n"

ReferencesText(var, prop) == ".references(() => " \o var \o "." \o prop \o ")"

TextInput(kind, text, refs, word, flag) ==
    [kind |-> kind, text |-> text, tables |-> <<>>, relations |-> <<>>,
     refs |-> refs, word |-> word, flag |-> flag]

\* schemas the store can hold: one table with one column of every type and
\* attribute combination, two tables linked by a relation of every
\* cardinality, and the preview schema
InternalTypes == {"integer", "varchar", "text", "boolean", "timestamp", "date", "json"}

OneColumnSchemas ==
    {[tables |-> <<[id |-> "table-1", name |-> "items",
                    position |-> [x |-> 100, y |-> 100], width |-> TableWidth,
                    columns |-> <<Column("col-1", "c", type, n, p, u, a)>>]>>,
      relations |-> <<>>] :
        type \in InternalTypes, n \in BOOLEAN, p \in BOOLEAN, u \in BOOLEAN, a \in BOOLEAN}

LinkedTables(fkName) ==
    << [id |-> "table-1", name |-> "users",
        position |-> [x |-> 100, y |-> 100], width |-> TableWidth,
        columns |-> <<Column("col-1", "id", "integer", FALSE, TRUE, FALSE, FALSE),
                      Column("col-2", "email", "varchar", FALSE, FALSE, TRUE, FALSE)>>],
       [id |-> "table-2", name |-> "posts",
        position |-> [x |-> 500, y |-> 100], width |-> TableWidth,
        columns |-> <<Column("col-3", "id", "integer", FALSE, TRUE, FALSE, FALSE),
                      Column("col-4", fkName, "integer", FALSE, FALSE, FALSE, FALSE)>>] >>


LinkedSchemas ==
    {[tables |-> LinkedTables(fkName),
      relations |-> <<Relation("rel-1", "table-1", "col-1", "table-2", "col-4", type)>>] :
        fkName \in {"user_id", "author"}, type \in RelationTypes}

\* users and posts linked in both directions by relations of every two
\* cardinalities, and a table tags without a relation
CrossLinkedSchemas ==
    {[tables |-> LinkedTables("user_id")
                     \o << [id |-> "table-3", name |-> "tags",
                            position |-> [x |-> 900, y |-> 100], width |-> TableWidth,
                            columns |-> <<Column("col-5", "id", "integer", FALSE, TRUE, FALSE, FALSE)>>] >>,
      relations |-> <<Relation("rel-1", "table-1", "col-1", "table-2", "col-4", forth),
                      Relation("rel-2", "table-2", "col-3", "table-1", "col-2", back)>>] :
        forth \in RelationTypes, back \in RelationTypes}

SchemaInputs ==
    {[kind |-> "schema", text |-> "", tables |-> s.tables, relations |-> s.relations,
      refs |-> <<>>, word |-> "", flag |-> FALSE] :
        s \in OneColumnSchemas \cup LinkedSchemas \cup CrossLinkedSchemas
                \cup {[tables |-> PreviewTables, relations |-> PreviewRelations]}}

\* one foreign key declared inline and again in relations blocks
UsersTable ==
    TableText("users", "users",
              ColumnLine("id", "serial('id').primaryKey()")
                  \o ColumnLine("email", "varchar('email', { length: 255 }).notNull().unique()"))

PostsTable(fkName, modifiers) ==
    TableText("posts", "posts",
              ColumnLine("id", "serial('id').primaryKey()")
                  \o ColumnLine(fkName, "integer('" \o fkName \o "')" \o modifiers))

DedupBlocks(fkName, blocks) ==
       (IF blocks \in {"many", "both"}
        THEN RelationsText("users", ManyText("posts", "posts")) ELSE "")
    \o (IF blocks \in {"one", "both"}
        THEN RelationsText("posts", OneText("author", "users", "posts", fkName, "users", "id"))
        ELSE "")

DedupTables(fkName, usersFirst) ==
    IF usersFirst
    THEN UsersTable \o PostsTable(fkName, ".notNull()" \o ReferencesText("users", "id"))
    ELSE PostsTable(fkName, ".notNull()" \o ReferencesText("users", "id")) \o UsersTable

DedupInputs ==
    {TextInput("dedup",
               IF blocksFirst
               THEN DedupBlocks(fkName, blocks) \o DedupTables(fkName, usersFirst)
               ELSE DedupTables(fkName, usersFirst) \o DedupBlocks(fkName, blocks),
               <<>>, fkName, usersFirst) :
        fkName \in {"user_id", "userId", "author_id", "owner"},
        blocks \in {"one", "many", "both"},
        usersFirst \in BOOLEAN, blocksFirst \in BOOLEAN}

\* a column of the auto-increment keyword, called or bare, with every choice of modifiers
SerialForms == {"serial('id')", "serial"}

SerialModifiers ==
    {"", ".notNull()", ".primaryKey()", ".unique()", ".notNull().unique()",
     ".primaryKey().notNull()", ".unique().primaryKey()", ".primaryKey().notNull().unique()"}

SerialInputs ==
    {TextInput("serial",
               TableText("items", "items",
                         ColumnLine("id", form \o modifiers)
                             \o ColumnLine("label", "text('label')")),
               <<>>, form \o modifiers, Includes(modifiers, ".unique()")) :
        form \in SerialForms, modifiers \in SerialModifiers}

\* inline references: ref.fkTable.fkCol references ref.refTable.refCol
Ref(fkTable, fkCol, refTable, refCol, unique) ==
    [fkTable |-> fkTable, fkCol |-> fkCol, refTable |-> refTable, refCol |-> refCol,
     unique |-> unique]

OneRefInputs ==
    {TextInput("refs",
               IF usersFirst
               THEN UsersTable
                        \o PostsTable(fkName, (IF unique THEN ".unique()" ELSE "")
                                                  \o ReferencesText("users", refCol))
               ELSE PostsTable(fkName, (IF unique THEN ".unique()" ELSE "")
                                           \o ReferencesText("users", refCol))
                        \o UsersTable,
               <<Ref("posts", fkName, "users", refCol, unique)>>, "", usersFirst) :
        fkName \in {"user_id", "owner"}, refCol \in {"id", "email"},
        unique \in BOOLEAN, usersFirst \in BOOLEAN}

\* a table that references itself, two references to one column, and two
\* tables whose columns reference each other
SelfRefText ==
    TableText("categories", "categories",
              ColumnLine("id", "serial('id').primaryKey()")
                  \o ColumnLine("parent_id",
                                "integer('parent_id')" \o ReferencesText("categories", "id")))

TwoRefsText ==
    UsersTable
        \o TableText("posts", "posts",
                     ColumnLine("id", "serial('id').primaryKey()")
                         \o ColumnLine("author_id", "integer('author_id').notNull()"
                                           \o ReferencesText("users", "id"))
                         \o ColumnLine("editor_id", "integer('editor_id').unique()"
                                           \o ReferencesText("users", "id")))

MutualRefsText ==
    TableText("users", "users",
              ColumnLine("id", "serial('id').primaryKey()")
                  \o ColumnLine("profile_id", "integer('profile_id')"
                                    \o ReferencesText("profiles", "user_id")))
        \o TableText("profiles", "profiles",
                     ColumnLine("id", "serial('id').primaryKey()")
                         \o ColumnLine("user_id", "integer('user_id').unique()"
                                           \o ReferencesText("users", "profile_id")))

RefInputs ==
    OneRefInputs
        \cup {TextInput("refs", SelfRefText,
                        <<Ref("categories", "parent_id", "categories", "id", FALSE)>>,
                        "", TRUE),
              TextInput("refs", TwoRefsText,
                        <<Ref("posts", "author_id", "users", "id", FALSE),
                          Ref("posts", "editor_id", "users", "id", TRUE)>>,
                        "", TRUE),
              TextInput("refs", MutualRefsText,
                        <<Ref("users", "profile_id", "profiles", "user_id", FALSE),
                          Ref("profiles", "user_id", "users", "profile_id", TRUE)>>,
                        "", TRUE)}

\* a column of every type keyword, in a text that declares one enum
FixedVocabulary == {"integer", "varchar", "text", "boolean", "timestamp", "date", "jsonb"}

TypeWords ==
    FixedVocabulary
        \cup {"statusEnum", "uuid", "bigint", "real", "numeric", "decimal", "json",
              "doublePrecision", "constructor"}

EnumText == "export const statusEnum = pgEnum('status', ['draft', 'live']);\n\n"

TypeInputs ==
    {TextInput("type",
               EnumText \o TableText("items", "items",
                                     ColumnLine("id", "serial('id').primaryKey()")
                                         \o ColumnLine("c", word \o "('c')")),
               <<>>, word, FALSE) :
        word \in TypeWords}

\* one table declaration with a comment in one of four places: between the
\* name and the column object, before the first entry, after a column
\* expression, between two entries
CommentedTable(afterName, beforeFirst, afterExpr, between) ==
       "export const items = pgTable('items'," \o afterName \o " {\n"
    \o beforeFirst \o "  id: serial('id').primaryKey()" \o afterExpr \o ",\n"
    \o between \o "  label: text('label').notNull(),\n});\n"

CommentedItems ==
    <<[id |-> "table-1", name |-> "items", position |-> [x |-> 100, y |-> 100],
       width |-> TableWidth,
       columns |-> <<Column("col-1", "id", "integer", FALSE, TRUE, FALSE, TRUE),
                     Column("col-2", "label", "text", FALSE, FALSE, FALSE, FALSE)>>]>>

Comments == {" // note\n", " /* note */ "}

CommentInput(place, text) ==
    [kind |-> "comment", text |-> text, tables |-> CommentedItems, relations |-> <<>>,
     refs |-> <<>>, word |-> place, flag |-> FALSE]

CommentInputs ==
    {CommentInput("none", CommentedTable("", "", "", ""))}
        \cup {CommentInput("after name", CommentedTable(c, "", "", "")) : c \in Comments}
        \cup {CommentInput("before first", CommentedTable("", c, "", "")) : c \in Comments}
        \cup {CommentInput("after expression", CommentedTable("", "", c, "")) : c \in Comments}
        \cup {CommentInput("between", CommentedTable("", "", "", c)) : c \in Comments}


\* a well-formed declaration of a table with one column
PlainTable(name) ==
       "export const " \o name \o " = pgTable('" \o name \o "', {\n"
    \o "  id: integer('id').primaryKey(),\n});\n"

\* a declaration of posts that ends as given, alone or after a well-formed one
UnclosedEnds ==
    { [word |-> "argument list", end |-> "}"],
      [word |-> "column object", end |-> ");"],
      [word |-> "both", end |-> ""] }

UnclosedInputs ==
    { TextInput("unclosed",
                (IF preceded THEN PlainTable("users") ELSE "")
                    \o "export const posts = pgTable('posts', {\n  id: integer('id'),\n" \o e.end,
                <<>>, e.word, preceded) :
        e \in UnclosedEnds, preceded \in BOOLEAN }

\* declarations the table loop skips: the first argument is no string
\* literal, or there is no column object
MalformedForms ==
    { [word |-> "no name", text |-> "export const bad = pgTable(badName, {\n  id: integer('id'),\n});\n"],
      [word |-> "no body", text |-> "export const bad = pgTable('bad', badColumns);\n"] }

\* the tables of PlainTable("users") \o PlainTable("posts")
PlainTables ==
    << [id |-> "table-1", name |-> "users", position |-> ImportPosition(0), width |-> TableWidth,
        columns |-> <<Column("col-1", "id", "integer", TRUE, TRUE, FALSE, FALSE)>>],
       [id |-> "table-2", name |-> "posts", position |-> ImportPosition(1), width |-> TableWidth,
        columns |-> <<Column("col-2", "id", "integer", TRUE, TRUE, FALSE, FALSE)>>] >>

MalformedInput(word, text) ==
    [kind |-> "malformed", text |-> text, tables |-> PlainTables, relations |-> <<>>,
     refs |-> <<>>, word |-> word, flag |-> FALSE]

\* one skipped declaration before, between or after two well-formed ones
MalformedInputs ==
    UNION { { MalformedInput(f.word \o ", first", f.text \o PlainTable("users") \o PlainTable("posts")),
              MalformedInput(f.word \o ", middle", PlainTable("users") \o f.text \o PlainTable("posts")),
              MalformedInput(f.word \o ", last", PlainTable("users") \o PlainTable("posts") \o f.text) } :
            f \in MalformedForms }

\* users and posts, where one of the columns author_id, editor_id of posts
\* holds an inline reference that cannot be resolved and the other holds a
\* reference to users.id or none
DroppedTables ==
    << [id |-> "table-1", name |-> "users", position |-> ImportPosition(0), width |-> TableWidth,
        columns |-> <<Column("col-1", "id", "integer", FALSE, TRUE, FALSE, TRUE),
                      Column("col-2", "email", "varchar", FALSE, FALSE, TRUE, FALSE)>>],
       [id |-> "table-2", name |-> "posts", position |-> ImportPosition(1), width |-> TableWidth,
        columns |-> <<Column("col-3", "id", "integer", FALSE, TRUE, FALSE, TRUE),
                      Column("col-4", "author_id", "integer", TRUE, FALSE, FALSE, FALSE),
                      Column("col-5", "editor_id", "integer", TRUE, FALSE, FALSE, FALSE)>>] >>

UnresolvedTargets ==
    { [table |-> "accounts", column |-> "id"],
      [table |-> "users", column |-> "missing"],
      [table |-> "posts", column |-> "owner"] }

DroppedText(authorRef, editorRef) ==
    UsersTable
        \o TableText("posts", "posts",
                     ColumnLine("id", "serial('id').primaryKey()")
                         \o ColumnLine("author_id", "integer('author_id')" \o authorRef)
                         \o ColumnLine("editor_id", "integer('editor_id')" \o editorRef))

DroppedInput(text, refs, word, flag) ==
    [kind |-> "dropped", text |-> text, tables |-> DroppedTables, relations |-> <<>>,
     refs |-> refs, word |-> word, flag |-> flag]

\* flag: the unresolved reference is the first of the text
DroppedInputs ==
    UNION { { DroppedInput(DroppedText(ReferencesText(u.table, u.column), ""),
                           <<>>, u.table \o "." \o u.column, TRUE),
              DroppedInput(DroppedText(ReferencesText(u.table, u.column),
                                       ReferencesText("users", "id")),
                           <<Ref("posts", "editor_id", "users", "id", FALSE)>>,
                           u.table \o "." \o u.column, TRUE),
              DroppedInput(DroppedText(ReferencesText("users", "id"),
                                       ReferencesText(u.table, u.column)),
                           <<Ref("posts", "author_id", "users", "id", FALSE)>>,
                           u.table \o "." \o u.column, FALSE) } :
            u \in UnresolvedTargets }

\* one(target, { fields: [A.x], references: [B.y] }) in the block of a base
\* table, over users, posts and tags: every base, every target (also one
\* that is not declared) and these pairs of columns
TagsTable == TableText("tags", "tags", ColumnLine("id", "serial('id').primaryKey()"))

OnePairs ==
    { Ref("posts", "user_id", "users", "id", FALSE),
      Ref("posts", "user_id", "users", "id", TRUE),
      Ref("posts", "user_id", "users", "email", FALSE),
      Ref("posts", "user_id", "users", "email", TRUE),
      Ref("users", "email", "posts", "id", TRUE),
      Ref("users", "id", "posts", "user_id", FALSE) }

\* flag: posts.user_id is unique
OneCallInputs ==
    { TextInput("one",
                UsersTable
                    \o PostsTable("user_id",
                                  IF p.fkTable = "posts" /\ p.unique THEN ".unique()" ELSE "")
                    \o TagsTable
                    \o RelationsText(base, OneText("link", target, p.fkTable, p.fkCol,
                                                   p.refTable, p.refCol)),
                <<p>>, base \o ", " \o target, p.fkTable = "posts" /\ p.unique) :
        p \in OnePairs, base \in {"users", "posts", "tags"},
        target \in {"users", "posts", "tags", "nothing"} }

\* many(posts) in the block of a base table.  from is the column of the
\* base table the relation is to start at ("" if the table has no column);
\* user and person are the columns of posts the relation is to end at when
\* the singular of the base table's name is user or person ("" if none)
ManyBases ==
    { [var |-> "users", name |-> "users", singular |-> "user", from |-> "id",
       lines |-> ColumnLine("id", "serial('id').primaryKey()")
                     \o ColumnLine("email", "text('email')")],
      [var |-> "users", name |-> "users", singular |-> "user", from |-> "id",
       lines |-> ColumnLine("email", "text('email')")
                     \o ColumnLine("id", "integer('id').primaryKey()")],
      [var |-> "users", name |-> "users", singular |-> "user", from |-> "email",
       lines |-> ColumnLine("email", "text('email')")
                     \o ColumnLine("label", "text('label')")],
      [var |-> "users", name |-> "users", singular |-> "user", from |-> "", lines |-> ""],
      [var |-> "users", name |-> "Users", singular |-> "user", from |-> "id",
       lines |-> ColumnLine("id", "serial('id').primaryKey()")],
      [var |-> "person", name |-> "person", singular |-> "person", from |-> "id",
       lines |-> ColumnLine("id", "serial('id').primaryKey()")] }

ManyTargets ==
    { [columns |-> <<"id", "owner_id", "person_id", "user_id", "personId", "userId">>,
       user |-> "userId", person |-> "personId"],
      [columns |-> <<"id", "owner_id", "person_id", "user_id">>,
       user |-> "user_id", person |-> "person_id"],
      [columns |-> <<"owner_id", "id">>, user |-> "owner_id", person |-> "owner_id"],
      [columns |-> <<"title", "body">>, user |-> "", person |-> ""],
      [columns |-> <<"title", "USER_ID", "UserId">>, user |-> "UserId", person |-> "USER_ID"],
      [columns |-> <<"title", "ownerID", "User_Id">>, user |-> "User_Id", person |-> "ownerID"],
      [columns |-> <<"title", "userids">>, user |-> "", person |-> ""] }

RECURSIVE IntegerLines(_, _)
IntegerLines(names, k) ==
    IF k > Len(names) THEN ""
    ELSE ColumnLine(names[k], "integer('" \o names[k] \o "')") \o IntegerLines(names, k + 1)

\* the end of the relation in posts
ManyEnd(b, t) == IF b.singular = "user" THEN t.user ELSE t.person

\* refs: the relation the call is to give, none if either end is missing;
\* flag: the posts table is declared first
ManyCallInputs ==
    { TextInput("many",
                (IF postsFirst
                 THEN TableText("posts", "posts", IntegerLines(t.columns, 1))
                          \o TableText(b.var, b.name, b.lines)
                 ELSE TableText(b.var, b.name, b.lines)
                          \o TableText("posts", "posts", IntegerLines(t.columns, 1)))
                    \o RelationsText(b.var, ManyText("posts", "posts")),
                IF b.from = "" \/ ManyEnd(b, t) = "" THEN <<>>
                ELSE <<Ref("posts", ManyEnd(b, t), b.name, b.from, FALSE)>>,
                b.singular, postsFirst) :
        b \in ManyBases, t \in ManyTargets, postsFirst \in BOOLEAN }

\* inline references and one() calls that give different relations, with a
\* one() call that repeats the first inline reference, as written or with
\* its ends swapped, before or after the call that gives a new relation;
\* the relations blocks stand before or after the tables
OrderPosts(second) ==
    TableText("posts", "posts",
              ColumnLine("id", "serial('id').primaryKey()")
                  \o ColumnLine("author_id", "integer('author_id')" \o ReferencesText("users", "id"))
                  \o ColumnLine("reviewer_id",
                                "integer('reviewer_id').unique()"
                                    \o (IF second THEN ReferencesText("users", "email") ELSE ""))
                  \o ColumnLine("editor_id", "integer('editor_id')"))

OrderRepeats ==
    { [word |-> "none", text |-> ""],
      [word |-> "same", text |-> OneText("author", "users", "posts", "author_id", "users", "id")],
      [word |-> "swapped", text |-> OneText("author", "posts", "users", "id", "posts", "author_id")] }

OrderBlock(repeat, repeatFirst) ==
    RelationsText("posts",
                  IF repeatFirst
                  THEN repeat \o OneText("editor", "users", "posts", "editor_id", "users", "id")
                  ELSE OneText("editor", "users", "posts", "editor_id", "users", "id") \o repeat)

\* refs: the relations the text is to give, in the order they are to have;
\* flag: the relations block stands before the tables
OrderInputs ==
    { TextInput("order",
                IF blockFirst
                THEN OrderBlock(r.text, repeatFirst) \o UsersTable \o OrderPosts(second)
                ELSE UsersTable \o OrderPosts(second) \o OrderBlock(r.text, repeatFirst),
                <<Ref("posts", "author_id", "users", "id", FALSE)>>
                    \o (IF second THEN <<Ref("posts", "reviewer_id", "users", "email", TRUE)>>
                        ELSE <<>>)
                    \o <<Ref("posts", "editor_id", "users", "id", FALSE)>>,
                r.word \o (IF repeatFirst THEN " first" ELSE " last"), blockFirst) :
        r \in OrderRepeats, repeatFirst \in BOOLEAN, second \in BOOLEAN, blockFirst \in BOOLEAN }
ParseInputs ==
    SchemaInputs \cup DedupInputs \cup SerialInputs \cup RefInputs \cup TypeInputs
        \cup CommentInputs \cup UnclosedInputs \cup MalformedInputs
        \cup DroppedInputs \cup OneCallInputs
        \cup ManyCallInputs \cup OrderInputs

\* the export dialog: the text of the schema
CallExportToDrizzle ==
    /\ parseArg.kind = "schema"
    /\ parseArg.text = ""
    /\ parseArg' = [parseArg EXCEPT !.text = exportToDrizzle(parseArg.tables, parseArg.relations)]
    /\ UNCHANGED <<parseRet, storeVars, opCount, scanVars, splitVars, arrangeVars, lastStep>>

\* what the parser made of a text, and for a generated text what the
\* generator makes of that
ParseReturn(kind, result) ==
    [done |-> TRUE, result |-> result,
     again |-> IF kind = "schema" THEN exportToDrizzle(result.tables, result.relations)
               ELSE ""]

CallParseDrizzle ==
    /\ parseArg.text # ""
    /\ ~parseRet.done
    /\ parseRet' = ParseReturn(parseArg.kind, ParseDrizzle(parseArg.text))
    /\ UNCHANGED <<parseArg, storeVars, opCount, scanVars, splitVars, arrangeVars, lastStep>>

InitParse ==
    /\ InitStore
    /\ opCount = 0
    /\ scanArgs = NoScan
    /\ scanRet = NotCalled
    /\ splitArg = ""
    /\ splitRet = NoParts
    /\ parseArg \in ParseInputs
    /\ parseRet = NotParsed
    /\ InitArrange
    /\ lastStep = NoStep

NextParse ==
    \/ CallExportToDrizzle
    \/ CallParseDrizzle

SpecParse == InitParse /\ [][NextParse]_vars

(***************************************************************************)
(* Properties                                                              *)
(***************************************************************************)

\* a schema without its ids: tables and columns in order, relations by the
\* names of their two columns and their cardinality
ColumnShape(c) ==
    [name |-> c.name, type |-> c.type, nullable |-> c.nullable,
     primaryKey |-> c.primaryKey, unique |-> c.unique, autoIncrement |-> c.autoIncrement]

TableShape(t) ==
    [name |-> t.name,
     columns |-> [k \in 1..Len(t.columns) |-> ColumnShape(t.columns[k])]]

ColumnNameOf(tbls, tableId, columnId) ==
    IF FindTableIndex(tbls, tableId) = 0 THEN <<"", "">>
    ELSE IF FindColumnById(tbls[FindTableIndex(tbls, tableId)].columns, columnId) = 0
    THEN <<tbls[FindTableIndex(tbls, tableId)].name, "">>
    ELSE <<tbls[FindTableIndex(tbls, tableId)].name,
           tbls[FindTableIndex(tbls, tableId)].columns[
               FindColumnById(tbls[FindTableIndex(tbls, tableId)].columns, columnId)].name>>

RelationShape(tbls, r) ==
    [from |-> ColumnNameOf(tbls, r.fromTableId, r.fromColumnId),
     to |-> ColumnNameOf(tbls, r.toTableId, r.toColumnId),
     type |-> r.type]

TableShapes(tbls) == [k \in 1..Len(tbls) |-> TableShape(tbls[k])]

RelationShapes(tbls, rels) == {RelationShape(tbls, rels[k]) : k \in 1..Len(rels)}

SameSchema(tbls, rels, tbls2, rels2) ==
    /\ TableShapes(tbls) = TableShapes(tbls2)
    /\ Len(rels) = Len(rels2)
    /\ RelationShapes(tbls, rels) = RelationShapes(tbls2, rels2)

\* C1: Round trip.  Parsing the generated text of a schema succeeds and
\* gives the same tables, columns and relations up to ids, and generating
\* from the result gives the same text again.
RoundTrip ==
    (parseArg.kind = "schema" /\ parseRet.done) =>
        /\ parseRet.result.success
        /\ SameSchema(parseArg.tables, parseArg.relations,
                      parseRet.result.tables, parseRet.result.relations)
        /\ parseRet.again = parseArg.text

\* C2: Failure path.  An import whose text holds no table that the parser
\* recognises returns success = false with an error message and leaves the
\* tables, the relations and the undo history as they were.
FailedImportChangesNothing ==
    [][(/\ lastImport'.n = lastImport.n + 1
        /\ Parsed(lastImport'.code).tables = <<>>)
       => (/\ ~lastImport'.success
           /\ lastImport'.error # ""
           /\ tables' = tables
           /\ relations' = relations
           /\ history' = history
           /\ historyIndex' = historyIndex
           /\ canUndo' = canUndo
           /\ canRedo' = canRedo)]_vars

\* a failed import over a schema with an undo history
FailedImportSeen ==
    /\ lastImport.n > 0
    /\ ~lastImport.success
    /\ lastImport.error = NoTablesError
    /\ Len(tables) > 0
    /\ Len(history) > 1

\* C3: Deduplication.  One foreign key declared inline and again in
\* relations blocks gives exactly one relation, whatever the column is
\* called and whatever the order of the declarations.
OneLinkOneRelation ==
    (parseArg.kind = "dedup" /\ parseRet.done) =>
        /\ parseRet.result.success
        /\ Len(parseRet.result.relations) = 1

\* C4: Delimiter balance.  scanToMatching returns the index of the close
\* delimiter that balances the open one at openPos, counting only the
\* delimiters outside string literals and comments.
ScanReturnsBalancingClose ==
    scanRet.done =>
        scanRet.value = BalancingClose(scanArgs.source, scanArgs.openPos,
                                       scanArgs.openChar, scanArgs.closeChar)

\* a string with an escaped quote and unmatched delimiters between the pair
ScanPastEscapedQuote ==
    /\ scanRet.done
    /\ scanArgs.source = "('\\')(')"
    /\ scanRet.value = 7

\* C5: Top-level split.  splitTopLevelComma cuts at exactly the commas at
\* depth 0 outside strings and comments, every segment is trimmed and not
\* empty, and the text a: f(1,2), b: g({x:1,y:2}) gives two segments.
SplitAtTopLevelCommas ==
    splitRet.done =>
        /\ splitRet.value = TopLevelPieces(splitArg)
        /\ \A k \in 1..Len(splitRet.value) :
               /\ splitRet.value[k] # ""
               /\ Trim(splitRet.value[k]) = splitRet.value[k]
        /\ splitArg = SplitExample =>
               splitRet.value = <<"a: f(1,2)", "b: g({x:1,y:2})">>

\* the example of two segments with their inner commas
SplitExampleSeen ==
    /\ splitRet.done
    /\ splitArg = SplitExample
    /\ Len(splitRet.value) = 2

\* C6: Auto-increment normalization.  A column of the auto-increment
\* keyword is imported not nullable, primary key, auto-increment and
\* integer whatever modifiers follow, and unique only with .unique().
SerialColumn(tbls) ==
    IF Len(tbls) = 0 THEN 0 ELSE FindColumnByName(tbls[1].columns, "id")

SerialNormalized ==
    (parseArg.kind = "serial" /\ parseRet.done) =>
        /\ parseRet.result.success
        /\ SerialColumn(parseRet.result.tables) # 0
        /\ ColumnShape(parseRet.result.tables[1].columns[SerialColumn(parseRet.result.tables)])
               = [name |-> "id", type |-> "integer", nullable |-> FALSE,
                  primaryKey |-> TRUE, unique |-> parseArg.flag, autoIncrement |-> TRUE]

\* C7: the relation an inline reference is to give: from the referenced
\* column to the foreign-key column, one-to-one when the foreign key is unique
RelationOfRef(ref) ==
    [from |-> <<ref.refTable, ref.refCol>>, to |-> <<ref.fkTable, ref.fkCol>>,
     type |-> IF ref.unique THEN "one-to-one" ELSE "one-to-many"]

\* the two references join the same two columns, in either direction
SameColumns(a, b) ==
    {<<a.refTable, a.refCol>>, <<a.fkTable, a.fkCol>>}
        = {<<b.refTable, b.refCol>>, <<b.fkTable, b.fkCol>>}

\* C7: FK cardinality inference.  Every inline reference whose endpoints
\* resolve gives a relation from the referenced column to the foreign-key
\* column, one-to-one when the foreign-key column is unique and one-to-many
\* otherwise, whichever of the two tables is declared first.
EveryReferenceGivesItsRelation ==
    (parseArg.kind = "refs" /\ parseRet.done) =>
        /\ parseRet.result.success
        /\ \A k \in 1..Len(parseArg.refs) :
               RelationOfRef(parseArg.refs[k])
                   \in RelationShapes(parseRet.result.tables, parseRet.result.relations)

\* C7 as the parser keeps it: the same holds of every inline reference
\* that is the first to join its two columns; a later reference joining the
\* same two columns, in either direction, adds no relation.
FirstReferenceGivesItsRelation ==
    (parseArg.kind = "refs" /\ parseRet.done) =>
        /\ parseRet.result.success
        /\ \A k \in 1..Len(parseArg.refs) :
               (\A j \in 1..(k - 1) : ~SameColumns(parseArg.refs[j], parseArg.refs[k]))
                   => RelationOfRef(parseArg.refs[k])
                          \in RelationShapes(parseRet.result.tables, parseRet.result.relations)
        /\ Len(parseRet.result.relations)
               = Cardinality({k \in 1..Len(parseArg.refs) :
                     \A j \in 1..(k - 1) : ~SameColumns(parseArg.refs[j], parseArg.refs[k])})

\* a unique foreign key whose referenced table is declared after it
ForwardUniqueReferenceSeen ==
    /\ parseArg.kind = "refs"
    /\ parseRet.done
    /\ ~parseArg.flag
    /\ Len(parseArg.refs) = 1
    /\ parseArg.refs[1].unique
    /\ Len(parseRet.result.relations) = 1
    /\ parseRet.result.relations[1].type = "one-to-one"

\* C8: Unknown-type degradation.  A column whose type keyword is no
\* declared enum, not the auto-increment keyword and not of the fixed
\* vocabulary is imported as text and the import succeeds; every column the
\* parser produces has one of the seven internal types or enum:<name> of a
\* declared enum.
TypedColumn(tbls) ==
    IF Len(tbls) = 0 THEN 0 ELSE FindColumnByName(tbls[1].columns, "c")

UnknownTypeIsText ==
    (parseArg.kind = "type" /\ parseRet.done) =>
        /\ parseRet.result.success
        /\ TypedColumn(parseRet.result.tables) # 0
        /\ parseArg.word \notin FixedVocabulary \cup {"statusEnum", "serial"} =>
               parseRet.result.tables[1].columns[TypedColumn(parseRet.result.tables)].type
                   = "text"
        /\ \A t \in 1..Len(parseRet.result.tables) :
               \A c \in 1..Len(parseRet.result.tables[t].columns) :
                   parseRet.result.tables[t].columns[c].type
                       \in InternalTypes \cup {"enum:status"}

\* C9: Id uniqueness.  In every reachable state the table ids are
\* pairwise distinct, the column ids of a table are pairwise distinct and
\* the relation ids are pairwise distinct.
IdsUnique ==
    /\ \A i, j \in 1..Len(tables) : tables[i].id = tables[j].id => i = j
    /\ \A t \in 1..Len(tables) :
           \A i, j \in 1..Len(tables[t].columns) :
               tables[t].columns[i].id = tables[t].columns[j].id => i = j
    /\ \A i, j \in 1..Len(relations) : relations[i].id = relations[j].id => i = j

\* C10: Referential integrity.  In every reachable state both endpoints of
\* every relation name a column of a table of the current schema.
ColumnExists(tableId, columnId) ==
    \E t \in 1..Len(tables) :
        /\ tables[t].id = tableId
        /\ \E c \in 1..Len(tables[t].columns) : tables[t].columns[c].id = columnId

RelationEndpointsExist ==
    \A r \in 1..Len(relations) :
        /\ ColumnExists(relations[r].fromTableId, relations[r].fromColumnId)
        /\ ColumnExists(relations[r].toTableId, relations[r].toColumnId)

(***************************************************************************)
(* The export dialog over a schema restored from storage                   *)
(***************************************************************************)

\* Number(m[1]) for a string of digits
RECURSIVE DigitsValue(_, _, _)
DigitsValue(s, i, acc) ==
    IF i >= Len(s) THEN acc
    ELSE DigitsValue(s, i + 1, acc * 10 + IndexOf(Digits, Ch(s, i)))

\* /^prefix(\d+)$/.exec(id): the number, 0 without a match
IdNumber(prefix, id) ==
    IF /\ StartsWithAt(id, 0, prefix)
       /\ Len(id) > Len(prefix)
       /\ \A i \in Len(prefix)..(Len(id) - 1) : Ch(id, i) \in DigitSet
    THEN DigitsValue(SliceFrom(id, Len(prefix)), 0, 0)
    ELSE 0

MaxOf(S) == IF S = {} THEN 0 ELSE CHOOSE n \in S : \A k \in S : k <= n

\* recomputeCountersFromSchema: the greatest numeric id of each kind
recomputeCountersFromSchema(tbls, rels) ==
    [tableCounter |-> MaxOf({IdNumber("table-", tbls[t].id) : t \in 1..Len(tbls)}),
     columnCounter |->
         MaxOf(UNION {{IdNumber("col-", tbls[t].columns[c].id) :
                          c \in 1..Len(tbls[t].columns)} : t \in 1..Len(tbls)}),
     relationCounter |-> MaxOf({IdNumber("rel-", rels[r].id) : r \in 1..Len(rels)})]

\* schemas with a relation whose table or column is gone, and the empty schema
DanglingSchemas ==
    {[tables |-> LinkedTables("user_id"),
      relations |-> <<Relation("rel-1", from[1], from[2], to[1], to[2], type)>>] :
        from \in {<<"table-1", "col-1">>, <<"table-9", "col-1">>, <<"table-1", "col-9">>},
        to \in {<<"table-2", "col-4">>, <<"table-9", "col-4">>, <<"table-2", "col-9">>},
        type \in RelationTypes}

StoredSchemas ==
    OneColumnSchemas \cup LinkedSchemas \cup DanglingSchemas
        \cup {[tables |-> PreviewTables, relations |-> PreviewRelations],
              [tables |-> <<>>, relations |-> <<>>]}

\* useSchemaProvider with a schema in storage
InitStored(s) ==
    /\ tables = s.tables
    /\ relations = s.relations
    /\ tableCounter = recomputeCountersFromSchema(s.tables, s.relations).tableCounter
    /\ columnCounter = recomputeCountersFromSchema(s.tables, s.relations).columnCounter
    /\ relationCounter = recomputeCountersFromSchema(s.tables, s.relations).relationCounter
    /\ history = <<createSnapshot(s.tables, s.relations)>>
    /\ historyIndex = 0
    /\ canUndo = FALSE
    /\ canRedo = FALSE
    /\ pendingRelation = Nil
    /\ lastImport = NotImported

\* what the export dialog keeps: the text, and the text of the export before it
Exported(text) ==
    /\ parseArg' = [parseArg EXCEPT !.kind = "export", !.text = text]
    /\ parseRet' = [parseRet EXCEPT !.done = (parseArg.kind = "export"),
                                    !.again = parseArg.text]

\* an export that records the schema in the undo history
handleExportSaving ==
    /\ Step
    /\ Exported(exportToDrizzle(tables, relations))
    /\ saveToHistory
    /\ UNCHANGED <<tables, relations, tableCounter, columnCounter, relationCounter,
                   pendingRelation, lastImport, scanVars, splitVars, arrangeVars, lastStep>>

\* Toolbar handleExport: const code = exportToDrizzle()
handleExport ==
    /\ Step
    /\ Exported(exportToDrizzle(tables, relations))
    /\ UNCHANGED <<storeVars, scanVars, splitVars, arrangeVars, lastStep>>

InitExport ==
    /\ \E s \in StoredSchemas : InitStored(s)
    /\ opCount = 0
    /\ scanArgs = NoScan
    /\ scanRet = NotCalled
    /\ splitArg = ""
    /\ splitRet = NoParts
    /\ parseArg = NoParse
    /\ parseRet = NotParsed
    /\ InitArrange
    /\ lastStep = NoStep

SpecExport == InitExport /\ [][handleExport]_vars

\* where the declaration of table t starts in the text, and where the
\* line of its column c starts
TableAt(text, tbls, t) ==
    IndexOf(text, "export const " \o TableVarName(tbls[t].name) \o " = pgTable('"
                      \o tbls[t].name \o "', {\n")

ColumnAt(text, tbls, t, c) ==
    IndexOfFrom(text, "\n  " \o tbls[t].columns[c].name \o ": ", TableAt(text, tbls, t))

\* every table is declared, in stored order, each with a line for every
\* column, in stored order, before the next table
InStoredOrder(text, tbls) ==
    /\ StartsWithAt(text, 0, ExportHeader)
    /\ \A t \in 1..Len(tbls) :
           /\ TableAt(text, tbls, t) # null
           /\ t > 1 => TableAt(text, tbls, t - 1) < TableAt(text, tbls, t)
           /\ \A c \in 1..Len(tbls[t].columns) :
                  /\ ColumnAt(text, tbls, t, c) # null
                  /\ c > 1 => ColumnAt(text, tbls, t, c - 1) < ColumnAt(text, tbls, t, c)
                  /\ t < Len(tbls) => ColumnAt(text, tbls, t, c) < TableAt(text, tbls, t + 1)

\* C11: Generation is pure and deterministic.  An export leaves the
\* tables, the relations, the undo history and the id counters as they
\* were, returns a text for every schema (also one with a relation whose
\* endpoint is missing), with tables and columns in stored order, and a
\* second export of the same schema returns the same text.
ExportChangesNothing ==
    [][(opCount' = opCount + 1 /\ parseArg'.kind = "export")
       => (/\ tables' = tables
           /\ relations' = relations
           /\ history' = history
           /\ historyIndex' = historyIndex
           /\ canUndo' = canUndo
           /\ canRedo' = canRedo
           /\ tableCounter' = tableCounter
           /\ columnCounter' = columnCounter
           /\ relationCounter' = relationCounter
           /\ InStoredOrder(parseArg'.text, tables)
           /\ parseArg.kind = "export" => parseArg'.text = parseArg.text)]_vars

\* two exports of a schema that holds a relation to a column that is gone
ExportedTwiceWithMissingEndpoint ==
    /\ parseRet.done
    /\ parseArg.kind = "export"
    /\ parseArg.text = parseRet.again
    /\ Len(relations) = 1
    /\ FindTableIndex(tables, relations[1].toTableId) # 0
    /\ FindColumnById(tables[FindTableIndex(tables, relations[1].toTableId)].columns,
                      relations[1].toColumnId) = 0

(***************************************************************************)
(* Properties of the generator and of the parser's handling of comments,   *)
(* malformed declarations and relation declarations                        *)
(***************************************************************************)

\* the number of columns of the tables before table t
RECURSIVE ColumnsBefore(_, _)
ColumnsBefore(tbls, t) ==
    IF t <= 1 THEN 0 ELSE ColumnsBefore(tbls, t - 1) + Len(tbls[t - 1].columns)

\* tables numbered table-1.., columns col-1.. through the tables in order,
\* relations rel-1..
FreshIds(tbls, rels) ==
    /\ \A t \in 1..Len(tbls) :
           /\ tbls[t].id = "table-" \o ToString(t)
           /\ \A c \in 1..Len(tbls[t].columns) :
                  tbls[t].columns[c].id = "col-" \o ToString(ColumnsBefore(tbls, t) + c)
    /\ \A r \in 1..Len(rels) : rels[r].id = "rel-" \o ToString(r)

\* C12: Parse determinism.  The schema a successful import leaves,
\* ids included, is the one the text alone determines, whatever the store
\* held before: the ids are table-1.., col-1.., rel-1.., and importing the
\* text the store was just imported from leaves the same schema.
ImportDependsOnTextOnly ==
    [][(lastImport'.n = lastImport.n + 1 /\ lastImport'.success)
       => (/\ FreshIds(tables', relations')
           /\ tables' = Parsed(lastImport'.code).tables
           /\ relations' = Parsed(lastImport'.code).relations)]_vars

\* the same text imported twice in a row: the snapshot taken by the second
\* import holds the schema it leaves
SameTextImportedTwice ==
    /\ lastImport.n = 2
    /\ opCount = 2
    /\ lastImport.success
    /\ lastImport.code = ImportTwoTables
    /\ Len(relations) = 1
    /\ history[Len(history)].tables = tables
    /\ history[Len(history)].relations = relations

\* C13: Comment tolerance.  A line or block comment between the tokens of
\* a valid table declaration does not change the imported schema: the
\* table has the columns it has without the comment.
CommentsChangeNothing ==
    (parseArg.kind = "comment" /\ parseRet.done) =>
        /\ parseRet.result.success
        /\ TableShapes(parseRet.result.tables) = TableShapes(parseArg.tables)


\* the column named as column c of table t of the input in table t of the
\* result, 0 if there is none
ImportedColumn(t, c) ==
    IF ~parseRet.result.success \/ t > Len(parseRet.result.tables) THEN 0
    ELSE FindColumnByName(parseRet.result.tables[t].columns, parseArg.tables[t].columns[c].name)

\* C14: Auto-increment keyword interchange.  The expression the generator
\* writes for an integer column with autoIncrement set is imported as a
\* column of the same name with autoIncrement and primaryKey set, not
\* nullable, of type integer.
ExportedSerialImported ==
    (parseArg.kind = "schema" /\ parseRet.done) =>
        \A t \in 1..Len(parseArg.tables) :
            \A c \in 1..Len(parseArg.tables[t].columns) :
                (parseArg.tables[t].columns[c].type = "integer"
                    /\ parseArg.tables[t].columns[c].autoIncrement)
                => /\ ImportedColumn(t, c) # 0
                   /\ parseRet.result.tables[t].columns[ImportedColumn(t, c)].type = "integer"
                   /\ parseRet.result.tables[t].columns[ImportedColumn(t, c)].autoIncrement
                   /\ parseRet.result.tables[t].columns[ImportedColumn(t, c)].primaryKey
                   /\ ~parseRet.result.tables[t].columns[ImportedColumn(t, c)].nullable

\* C15: Unbalanced delimiters are a parse failure.  The import of a text
\* with a table declaration whose argument list or column object is not
\* closed returns success = false and no schema, also when a well-formed
\* declaration precedes it.
UnclosedDeclarationFails ==
    (parseArg.kind = "unclosed" /\ parseRet.done) =>
        /\ ~parseRet.result.success
        /\ parseRet.result.tables = <<>>
        /\ parseRet.result.relations = <<>>

\* C16: Malformed table declarations are skipped, not fatal.  A
\* declaration without a string-literal name or without a column object
\* gives no table and takes no table id; the well-formed declarations of
\* the text are imported in their order with ids table-1, table-2 and
\* columns col-1, col-2.
MalformedDeclarationSkipped ==
    (parseArg.kind = "malformed" /\ parseRet.done) =>
        /\ parseRet.result.success
        /\ parseRet.result.tables = parseArg.tables
        /\ FreshIds(parseRet.result.tables, parseRet.result.relations)
        /\ parseRet.result.relations = <<>>

\* a declaration without a name between two well-formed ones was skipped
MalformedBetweenSkipped ==
    /\ parseRet.done
    /\ parseArg.kind = "malformed"
    /\ parseArg.word = "no name, middle"
    /\ Len(parseRet.result.tables) = 2
    /\ parseRet.result.tables[2].id = "table-2"
    /\ parseRet.result.tables[2].name = "posts"

\* C17: Unresolvable inline references are dropped silently.  When an
\* inline reference names a table that was not imported or a column its
\* table does not have, the import succeeds, the tables and columns are
\* those of the text, no relation is made for that reference, and every
\* other reference gives its relation.
UnresolvedReferenceDropped ==
    (parseArg.kind = "dropped" /\ parseRet.done) =>
        /\ parseRet.result.success
        /\ parseRet.result.tables = parseArg.tables
        /\ Len(parseRet.result.relations) = Len(parseArg.refs)
        /\ \A k \in 1..Len(parseArg.refs) :
               RelationOfRef(parseArg.refs[k])
                   \in RelationShapes(parseRet.result.tables, parseRet.result.relations)

\* a reference to a table that is not declared, before a reference that
\* gave its relation
UnknownTableReferenceSeen ==
    /\ parseRet.done
    /\ parseArg.kind = "dropped"
    /\ parseArg.word = "accounts.id"
    /\ parseArg.flag
    /\ Len(parseArg.refs) = 1
    /\ Len(parseRet.result.relations) = 1
    /\ parseRet.result.relations[1].toColumnId = "col-5"

\* C18: Explicit scalar reference.  A call one(target, { fields: [A.x],
\* references: [B.y] }) in the block of an imported base table gives the
\* relation from B.y to A.x, one-to-one when A.x is unique and one-to-many
\* otherwise, whichever table is the base of the block and whichever the
\* target of the call.
OneCallGivesItsRelation ==
    (parseArg.kind = "one" /\ parseRet.done) =>
        /\ parseRet.result.success
        /\ Len(parseRet.result.relations) = 1
        /\ RelationShapes(parseRet.result.tables, parseRet.result.relations)
               = {RelationOfRef(parseArg.refs[1])}

\* a call in the block of a table that is neither side of the pair, with a
\* target that is not declared
OneCallInForeignBlockSeen ==
    /\ parseRet.done
    /\ parseArg.kind = "one"
    /\ parseArg.word = "tags, nothing"
    /\ parseArg.flag
    /\ parseArg.refs[1].refCol = "email"
    /\ Len(parseRet.result.relations) = 1
    /\ parseRet.result.relations[1].type = "one-to-one"
    /\ parseRet.result.relations[1].fromColumnId = "col-2"
    /\ parseRet.result.relations[1].toColumnId = "col-4"

\* C19: Collection reference heuristic.  A many(target) call in the block
\* of base table B gives a relation from the first primary-key column of B,
\* or its first column if none is primary, to the column of the target
\* chosen in the order: named <singular of B>id, else holding the singular
\* of B and ending in id, else ending in id, letter case ignored; when the
\* target has no such column or B has no column, no relation is made and
\* the import succeeds.
ManyCallFollowsPreference ==
    (parseArg.kind = "many" /\ parseRet.done) =>
        /\ parseRet.result.success
        /\ Len(parseRet.result.tables) = 2
        /\ Len(parseRet.result.relations) = Len(parseArg.refs)
        /\ \A k \in 1..Len(parseArg.refs) :
               RelationOfRef(parseArg.refs[k])
                   \in RelationShapes(parseRet.result.tables, parseRet.result.relations)

\* the column named <singular>id was chosen over earlier columns of the
\* two weaker forms, letter case ignored
PreferredColumnChosen ==
    /\ parseRet.done
    /\ parseArg.kind = "many"
    /\ parseArg.word = "user"
    /\ Len(parseArg.refs) = 1
    /\ parseArg.refs[1].fkCol = "userId"
    /\ Len(parseRet.result.relations) = 1
    /\ ColumnNameOf(parseRet.result.tables, parseRet.result.relations[1].toTableId,
                    parseRet.result.relations[1].toColumnId) = <<"posts", "userId">>
    /\ ColumnNameOf(parseRet.result.tables, parseRet.result.relations[1].fromTableId,
                    parseRet.result.relations[1].fromColumnId) = <<"users", "id">>

\* C20: The parser never infers many-to-many.  Every relation of the
\* result of a successful import has type one-to-one or one-to-many,
\* whatever inline references, one() and many() calls the text holds.
NeverManyToMany ==
    (parseRet.done /\ parseRet.result.success) =>
        \A r \in 1..Len(parseRet.result.relations) :
            parseRet.result.relations[r].type \in {"one-to-one", "one-to-many"}

\* the generated text of a many-to-many relation was imported and gave a
\* relation
ManyToManyTextImported ==
    /\ parseRet.done
    /\ parseArg.kind = "schema"
    /\ Len(parseArg.relations) = 1
    /\ parseArg.relations[1].type = "many-to-many"
    /\ parseRet.result.success
    /\ Len(parseRet.result.relations) = 1
    /\ parseRet.result.relations[1].type = "one-to-many"

(***************************************************************************)
(* Properties of relation ids, of the links of the store, of the generated *)
(* text and of the undo history                                            *)
(***************************************************************************)

\* C21: Relation ids follow discovery order.  The relations of a
\* successful import have the ids rel-1 .. rel-k in list order, those of
\* inline references before those of relations blocks, and a candidate
\* that joins two columns already joined takes no id.
RelationIdsInDiscoveryOrder ==
    (parseArg.kind = "order" /\ parseRet.done) =>
        /\ parseRet.result.success
        /\ Len(parseRet.result.relations) = Len(parseArg.refs)
        /\ \A k \in 1..Len(parseRet.result.relations) :
               /\ parseRet.result.relations[k].id = "rel-" \o ToString(k)
               /\ k <= Len(parseArg.refs)
                    => RelationShape(parseRet.result.tables, parseRet.result.relations[k])
                           = RelationOfRef(parseArg.refs[k])

\* a block before the tables whose first call repeats an inline reference
\* with its ends swapped: the new relation of the block is the third
RepeatedLinkTookNoId ==
    /\ parseRet.done
    /\ parseArg.kind = "order"
    /\ parseArg.word = "swapped first"
    /\ parseArg.flag
    /\ Len(parseArg.refs) = 3
    /\ Len(parseRet.result.relations) = 3
    /\ parseRet.result.relations[3].id = "rel-3"
    /\ ColumnNameOf(parseRet.result.tables, parseRet.result.relations[3].toTableId,
                    parseRet.result.relations[3].toColumnId) = <<"posts", "editor_id">>

\* C22: No duplicate links in any reachable state.  No two relations of
\* the store join the same two columns, in the same or in the swapped
\* direction.
NoDuplicateLinks ==
    \A i \in 1..Len(relations) :
        \A j \in 1..Len(relations) :
            i # j => ~SameLink(relations[i], relations[j])

\* the places of a text where lit stands
Occurrences(text, lit) == {i \in 0..(Len(text) - Len(lit)) : StartsWithAt(text, i, lit)}

\* in no line of the text does second stand before first
InOrder(text, first, second) ==
    \A b \in Occurrences(text, second) :
        \A a \in Occurrences(text, first) :
            b < a => (IndexOfFrom(text, "\n", b) # null /\ IndexOfFrom(text, "\n", b) < a)

\* the places <<t, c>> of the columns of the tables
ColumnPlaces(tbls) == UNION {{t} \X (1..Len(tbls[t].columns)) : t \in 1..Len(tbls)}

\* the columns of the tables that carry one of the marks
ColumnsNotNull(tbls) ==
    {p \in ColumnPlaces(tbls) : ~tbls[p[1]].columns[p[2]].nullable}

ColumnsUnique(tbls) ==
    {p \in ColumnPlaces(tbls) : tbls[p[1]].columns[p[2]].unique}

ColumnsPrimary(tbls) ==
    {p \in ColumnPlaces(tbls) : tbls[p[1]].columns[p[2]].primaryKey}

\* every modifier stands once for every column that asks for it, the
\* primary-key modifier at most once for every primary-key column
ModifiersAsMarked(text, tbls) ==
    /\ Cardinality(Occurrences(text, ".notNull()")) = Cardinality(ColumnsNotNull(tbls))
    /\ Cardinality(Occurrences(text, ".unique()")) = Cardinality(ColumnsUnique(tbls))
    /\ Cardinality(Occurrences(text, ".primaryKey()")) <= Cardinality(ColumnsPrimary(tbls))

\* C23: Modifier order.  In every column expression of a generated text
\* the modifier calls stand in the order not-null, unique, primary-key,
\* each only when the column's mark asks for it.
ModifiersNotNullFirst ==
    (parseArg.kind = "schema" /\ parseArg.text # "") =>
        /\ InOrder(parseArg.text, ".notNull()", ".unique()")
        /\ InOrder(parseArg.text, ".unique()", ".primaryKey()")
        /\ InOrder(parseArg.text, ".notNull()", ".primaryKey()")
        /\ ModifiersAsMarked(parseArg.text, parseArg.tables)

\* C23 as the generator keeps it: the modifier calls stand in the order
\* primary-key, not-null, unique, each only when the column's mark asks
\* for it.
ModifiersPrimaryKeyFirst ==
    (parseArg.kind = "schema" /\ parseArg.text # "") =>
        /\ InOrder(parseArg.text, ".primaryKey()", ".notNull()")
        /\ InOrder(parseArg.text, ".notNull()", ".unique()")
        /\ InOrder(parseArg.text, ".primaryKey()", ".unique()")
        /\ ModifiersAsMarked(parseArg.text, parseArg.tables)

\* a column expression with the three modifiers was generated
ThreeModifiersSeen ==
    /\ parseArg.kind = "schema"
    /\ Len(parseArg.tables) = 1
    /\ parseArg.tables[1].columns[1].primaryKey
    /\ parseArg.tables[1].columns[1].unique
    /\ ~parseArg.tables[1].columns[1].nullable
    /\ Includes(parseArg.text, "text('c').primaryKey().notNull().unique(),\n")

\* the columns written with the auto-increment keyword
ColumnsSerial(tbls) ==
    {p \in ColumnPlaces(tbls) : /\ tbls[p[1]].columns[p[2]].autoIncrement
                                /\ tbls[p[1]].columns[p[2]].type = "integer"}

\* C24: Primary key is never lost on export.  The expression of every
\* primary-key column uses the auto-increment keyword or holds
\* .primaryKey(): the generated text holds the auto-increment keyword once
\* for every integer column with autoIncrement and .primaryKey() once for
\* every other primary-key column.
PrimaryKeyKeptOnExport ==
    (parseArg.kind = "schema" /\ parseArg.text # "") =>
        /\ Cardinality(Occurrences(parseArg.text, ": serial"))
               = Cardinality(ColumnsSerial(parseArg.tables))
        /\ Cardinality(Occurrences(parseArg.text, ".primaryKey()"))
               = Cardinality(ColumnsPrimary(parseArg.tables) \ ColumnsSerial(parseArg.tables))

\* the relations block of the table named var in a generated text, from
\* its first line to the line that closes it; "" if there is none
BlockHead(var) == "export const " \o var \o "Relations = relations("

BlockOf(text, var) ==
    IF IndexOf(text, BlockHead(var)) = null THEN ""
    ELSE Slice(text, IndexOf(text, BlockHead(var)),
               IndexOfFrom(text, "}))\n", IndexOf(text, BlockHead(var))))

\* the relations that leave, that leave with one of the types, and that
\* reach the table
Outgoing(rels, tableId, types) ==
    {k \in 1..Len(rels) : rels[k].fromTableId = tableId /\ rels[k].type \in types}

Incoming(rels, tableId, types) ==
    {k \in 1..Len(rels) : rels[k].toTableId = tableId /\ rels[k].type \in types}

\* the block of a table holds a many() for every outgoing relation that is
\* not one-to-one, and a one() for every outgoing one-to-one relation and
\* every incoming relation of the given types; a table without a relation
\* has no block
BlockAsGiven(text, rels, table, types) ==
    /\ Cardinality(Occurrences(text, BlockHead(table.name)))
           = IF Outgoing(rels, table.id, RelationTypes) \cup Incoming(rels, table.id, RelationTypes) = {}
             THEN 0 ELSE 1
    /\ Cardinality(Occurrences(BlockOf(text, table.name), ": many("))
           = Cardinality(Outgoing(rels, table.id, RelationTypes \ {"one-to-one"}))
    /\ Cardinality(Occurrences(BlockOf(text, table.name), ": one("))
           = Cardinality(Outgoing(rels, table.id, {"one-to-one"}))
                 + Cardinality(Incoming(rels, table.id, types))

\* C25: Relation-block fields.  The generated text holds one relations
\* block for every table that is an end of a relation and none for the
\* others; the block holds one field for every outgoing relation, a one()
\* when it is one-to-one and a many() otherwise, and a one() for every
\* incoming relation of any cardinality.
IncomingAlwaysReferencedBack ==
    (parseArg.kind = "schema" /\ parseArg.text # "") =>
        \A t \in 1..Len(parseArg.tables) :
            BlockAsGiven(parseArg.text, parseArg.relations, parseArg.tables[t], RelationTypes)

\* C25 as the generator keeps it: the same, with a one() for every
\* incoming relation that is one-to-one or one-to-many and none for an
\* incoming many-to-many relation.
RelationBlockFields ==
    (parseArg.kind = "schema" /\ parseArg.text # "") =>
        \A t \in 1..Len(parseArg.tables) :
            BlockAsGiven(parseArg.text, parseArg.relations, parseArg.tables[t],
                         {"one-to-one", "one-to-many"})

\* a text with a block that holds a many() and a one(), a block that
\* holds two one(), and a table without a block
MixedBlocksSeen ==
    /\ parseArg.kind = "schema"
    /\ parseArg.text # ""
    /\ Len(parseArg.tables) = 3
    /\ Len(parseArg.relations) = 2
    /\ parseArg.relations[1].type = "one-to-many"
    /\ parseArg.relations[2].type = "one-to-one"
    /\ Cardinality(Occurrences(BlockOf(parseArg.text, "users"), ": many(")) = 1
    /\ Cardinality(Occurrences(BlockOf(parseArg.text, "users"), ": one(")) = 1
    /\ Cardinality(Occurrences(BlockOf(parseArg.text, "posts"), ": one(")) = 2
    /\ BlockOf(parseArg.text, "tags") = ""

\* the tables are the same but for their positions
MovedOnly(before, after) ==
    /\ Len(after) = Len(before)
    /\ \A k \in 1..Len(before) : after[k] = [before[k] EXCEPT !.position = after[k].position]

\* one snapshot, of the schema before the step, was put after the current
\* entry of the history
OneEntryAdded ==
    /\ Len(history') = historyIndex + 2
    /\ historyIndex' = historyIndex + 1
    /\ SubSeq(history', 1, historyIndex + 1) = SubSeq(history, 1, historyIndex + 1)
    /\ history'[Len(history')] = createSnapshot(tables, relations)

UndoCalled == opCount' # opCount /\ lastStep'.kind = "undo"

RedoCalled == opCount' # opCount /\ lastStep'.kind = "redo"

\* C27: undo called right after a history-recording operation makes tables and
\* relations what they were right before that operation
UndoRestoresPrevious ==
    [][ (lastStep.kind = "recorded" /\ UndoCalled)
        => /\ tables' = lastStep.tables
           /\ relations' = lastStep.relations ]_vars

\* C28: whenever canUndo holds, undo followed by redo leaves tables and
\* relations what they were before the undo
RedoInvertsUndo ==
    [][ (lastStep.kind = "undo" /\ RedoCalled)
        => /\ tables' = lastStep.tables
           /\ relations' = lastStep.relations ]_vars

\* C29: the history holds between 1 and MAX_HISTORY_SIZE snapshots,
\* historyIndex points into it, canUndo and canRedo say whether there is an
\* entry below and above it, and right after a history-recording operation
\* historyIndex is the last entry
HistoryInvariant ==
    /\ Len(history) >= 1
    /\ Len(history) <= MAX_HISTORY_SIZE
    /\ historyIndex >= 0
    /\ historyIndex <= Len(history) - 1
    /\ canUndo = (historyIndex > 0)
    /\ canRedo = (historyIndex < Len(history) - 1)
    /\ lastStep.kind = "recorded" => historyIndex = Len(history) - 1

\* with a full history that was shifted once, an edit was made after an undo
EditAfterUndoAtFullHistory ==
    /\ Len(history) = MAX_HISTORY_SIZE
    /\ history[2].relations = SwitchedRelations(1)
    /\ lastStep.kind = "recorded"
    /\ history[MAX_HISTORY_SIZE] = history[MAX_HISTORY_SIZE - 1]
    /\ opCount = 3
====
